---- MODULE Spec2Model ----
(***************************************************************************)
(* Clone worker of electron-puppeteer-cloner (src/src/renderer/renderer.js *)
(* lines 1535-2149): the capture session, asset persistence, the HTML      *)
(* rewrite and the CSS pass.                                               *)
(*                                                                         *)
(* Text is a sequence of tokens.  A token is a run of characters that no   *)
(* operation of the worker ever cuts: "https://x.com" (an origin), "/",    *)
(* a path segment name, an extension such as ".css", "url(", ")",          *)
(* "[object Object]", a quote.  String operations of the code (startsWith, *)
(* includes, split/join, regular expressions, path.join, path.relative,    *)
(* new URL) are computed on these sequences.                               *)
(***************************************************************************)
EXTENDS Integers, Sequences, FiniteSets, TLC

(***************************************************************************)
(* Bounds of the model.                                                    *)
(***************************************************************************)
MaxResp == 2

(***************************************************************************)
(* Generic text helpers.                                                   *)
(***************************************************************************)
Last(s) == s[Len(s)]

Front(s) == SubSeq(s, 1, Len(s) - 1)

MatchesAt(s, i, p) == i + Len(p) - 1 <= Len(s) /\ SubSeq(s, i, i + Len(p) - 1) = p

\* String.prototype.includes
Includes(s, p) == \E i \in 1..Len(s) : MatchesAt(s, i, p)

\* text.split(pat).join(rep): every occurrence, leftmost first, no rescan
RECURSIVE SplitJoinFrom(_, _, _, _)
SplitJoinFrom(s, pat, rep, i) ==
  IF i > Len(s) THEN <<>>
  ELSE IF MatchesAt(s, i, pat) THEN rep \o SplitJoinFrom(s, pat, rep, i + Len(pat))
  ELSE <<s[i]>> \o SplitJoinFrom(s, pat, rep, i + 1)

SplitJoin(s, pat, rep) == IF Len(pat) = 0 THEN s ELSE SplitJoinFrom(s, pat, rep, 1)

\* s.split(sep) for a one-token separator: the sequence of segments
RECURSIVE SplitOn(_, _)
SplitOn(s, sep) ==
  IF \A i \in 1..Len(s) : s[i] # sep THEN <<s>>
  ELSE LET k == CHOOSE i \in 1..Len(s) : s[i] = sep /\ \A j \in 1..(i - 1) : s[j] # sep
       IN  <<SubSeq(s, 1, k - 1)>> \o SplitOn(SubSeq(s, k + 1, Len(s)), sep)

\* segs.join(sep)
RECURSIVE JoinWith(_, _)
JoinWith(segs, sep) ==
  IF Len(segs) = 0 THEN <<>>
  ELSE IF Len(segs) = 1 THEN segs[1]
  ELSE segs[1] \o <<sep>> \o JoinWith(Tail(segs), sep)

(***************************************************************************)
(* Node's path module (POSIX).                                             *)
(***************************************************************************)
\* resolution of ".", ".." and empty segments, as path.normalize does
RECURSIVE NormSegs(_, _)
NormSegs(segs, acc) ==
  IF Len(segs) = 0 THEN acc
  ELSE LET h == segs[1]
       IN  IF h = <<>> \/ h = <<".">> THEN NormSegs(Tail(segs), acc)
           ELSE IF h = <<"..">>
                THEN NormSegs(Tail(segs), IF Len(acc) > 0 THEN Front(acc) ELSE acc)
                ELSE NormSegs(Tail(segs), Append(acc, h))

\* the segments of an absolute path
AbsSegs(p) == NormSegs(SplitOn(p, "/"), <<>>)

FromSegs(segs) == <<"/">> \o JoinWith(segs, "/")

\* path.join(dir, rel) for an absolute dir
PathJoin(dir, rel) == FromSegs(AbsSegs(dir \o <<"/">> \o rel))

\* path.dirname of an absolute path
PathDirname(p) ==
  LET segs == AbsSegs(p) IN IF Len(segs) = 0 THEN <<"/">> ELSE FromSegs(Front(segs))

RECURSIVE CommonLen(_, _)
CommonLen(a, b) ==
  IF Len(a) = 0 \/ Len(b) = 0 \/ a[1] # b[1] THEN 0
  ELSE 1 + CommonLen(Tail(a), Tail(b))

\* process.cwd() of the worker
cwd == <<"/", "app">>

\* the characters of a URL's scheme and authority, read as path text
OriginAsPath(t) ==
  CASE t = "https://x.com" -> <<"https:", "/", "/", "x.com">>
    [] t = "https://y.com" -> <<"https:", "/", "/", "y.com">>
    [] t = "http://x.com"  -> <<"http:", "/", "/", "x.com">>
    [] OTHER               -> <<t>>

\* path.resolve(p): a text that does not start with '/' is taken relative to the
\* working directory
PathResolve(p) ==
  IF Len(p) = 0 THEN cwd
  ELSE IF p[1] = "/" THEN p
  ELSE cwd \o <<"/">> \o OriginAsPath(p[1]) \o Tail(p)

\* path.basename(p)
PathBasename(p) == Last(SplitOn(p, "/"))

\* path.relative(from, to).split(path.sep).join('/'); both are resolved first
PathRelative(from, to) ==
  LET f == AbsSegs(PathResolve(from))
      t == AbsSegs(PathResolve(to))
      k == CommonLen(f, t)
      ups == [i \in 1..(Len(f) - k) |-> <<"..">>]
  IN  JoinWith(ups \o SubSeq(t, k + 1, Len(t)), "/")


(***************************************************************************)
(* The site the browser loads and the options of the clone request.        *)
(***************************************************************************)
O == "https://x.com"

DocUrl == <<O, "/">>

CssUrl == <<O, "/", "css", "/", "a", ".css">>

ImgUrl == <<O, "/", "img", "/", "p", ".png">>

ApiUrl == <<O, "/", "api", "/", "u">>

MediaUrl == <<O, "/", "v", ".mp4">>

\* the image URL with a cache-busting query
ImgUrlV2 == <<O, "/", "img", "/", "p", ".png", "?v=2">>

DataUrl == <<"data:", "image/png;base64,AAAA">>

\* options.url: the page the session navigates to, the base of CSS resolution
PageUrl == DocUrl

\* path.resolve(options.outputDir)
baseOut == <<"/", "out">>

\* options.filename
filename == <<"page", ".html">>

NoSeq == <<>>

Corrupted == "[object Object]"

CssHead == <<"a{background:">>

CssTail == <<"}">>

CssRel == CssHead \o <<"url(", "/", "img", "/", "p", ".png", ")">> \o CssTail

CssDotRel == CssHead \o <<"url(", "..", "/", "img", "/", "p", ".png", ")">> \o CssTail

CssQuoted == CssHead \o <<"url(", "\"", "/", "img", "/", "p", ".png", "\"", ")">> \o CssTail

CssAbs == CssHead \o <<"url(">> \o ImgUrl \o <<")">> \o CssTail

CssData == CssHead \o <<"url(">> \o DataUrl \o <<")">> \o CssTail

CssCorrupt == CssHead \o <<"url(", Corrupted, ")">> \o CssTail

CssCorruptPlus == CssCorrupt \o <<"b{background:", "url(", "/", "img", "/", "p", ".png", ")", "}">>

CssTexts == {CssRel, CssDotRel, CssQuoted, CssAbs, CssData, CssCorrupt, CssCorruptPlus}

Png1 == <<"PNG-1">>

Png2 == <<"PNG-2">>

PngV2 == <<"PNG-v2">>

\* the exchanges the page can cause: request.url() and request.resourceType()
Requests ==
  { [url |-> DocUrl, role |-> "document"],
    [url |-> CssUrl, role |-> "stylesheet"],
    [url |-> ImgUrl, role |-> "image"],
    [url |-> ImgUrlV2, role |-> "image"],
    [url |-> DataUrl, role |-> "image"],
    [url |-> ApiUrl, role |-> "xhr"],
    [url |-> ApiUrl, role |-> "fetch"],
    [url |-> MediaUrl, role |-> "media"] }

\* StaticRoles with xhr listed among the static roles
StaticRolesWithXhr == {"stylesheet", "script", "image", "font", "document", "other", "xhr"}

StaticRoles == {"stylesheet", "script", "image", "font", "document", "other"}

ApiRoles == {"xhr", "fetch"}

(***************************************************************************)
(* URL and path derivation of the response handler.                        *)
(***************************************************************************)
Origins == {"https://x.com", "https://y.com", "http://x.com"}

IsQueryToken(t) == t \in {"?v=1", "?v=2"}

\* does the token hold a '.' character
HasDot(t) == t \in {".css", ".png", ".html", ".mp4", ".woff", ".", "..", "v1.2"}

\* requestUrl.startsWith('data:')
IsDataUrl(s) == Len(s) > 0 /\ s[1] = "data:"

\* s.startsWith('http://') || s.startsWith('https://')
IsHttpUrl(s) == Len(s) > 0 /\ s[1] \in Origins

\* urlMod.parse(requestUrl).pathname || '/'
Pathname(url) ==
  LET rest == IF Len(url) > 0 /\ url[1] \in Origins THEN Tail(url) ELSE url
      stop == IF \E i \in 1..Len(rest) : IsQueryToken(rest[i])
              THEN (CHOOSE i \in 1..Len(rest) :
                      IsQueryToken(rest[i]) /\ \A j \in 1..(i - 1) : ~IsQueryToken(rest[j])) - 1
              ELSE Len(rest)
      p == SubSeq(rest, 1, stop)
  IN  IF p = <<>> THEN <<"/">> ELSE p

assetsDir == PathJoin(baseOut, <<"assets">>)

\* lines 1997-2006: trailing slash, document extension, join under assets
SavePath(url, role) ==
  LET p0 == Pathname(url)
      p1 == IF Last(p0) = "/" THEN Append(p0, "index") ELSE p0
      p2 == IF role = "document" /\ (\A i \in 1..Len(p1) : ~HasDot(p1[i]))
               /\ Last(p1) # ".html"
            THEN Append(p1, ".html") ELSE p1
      rel == IF p2[1] = "/" THEN Tail(p2) ELSE p2
  IN  PathJoin(assetsDir, rel)

\* savedFiles[url] (undefined is the empty text)
Lookup(sf, url) ==
  IF \E i \in 1..Len(sf) : sf[i].url = url
  THEN sf[CHOOSE i \in 1..Len(sf) : sf[i].url = url].path
  ELSE NoSeq

HasKey(sf, url) == \E i \in 1..Len(sf) : sf[i].url = url

\* savedFiles[url] = path: an existing key keeps its place in the key order
SetKey(sf, url, path) ==
  IF HasKey(sf, url)
  THEN [i \in 1..Len(sf) |-> IF sf[i].url = url THEN [url |-> url, path |-> path] ELSE sf[i]]
  ELSE Append(sf, [url |-> url, path |-> path])

(***************************************************************************)
(* url(...) tokens: the matches of /url\(([^)]+)\)/g and /url\([^)]*\)/g.  *)
(***************************************************************************)
FirstClose(s, i) == CHOOSE j \in (i + 1)..Len(s) : s[j] = ")" /\ \A k \in (i + 1)..(j - 1) : s[k] # ")"

\* the spans <<from, to>> of the non-overlapping matches, at least min tokens inside
RECURSIVE UrlSpansFrom(_, _, _)
UrlSpansFrom(s, i, min) ==
  IF i > Len(s) THEN <<>>
  ELSE IF s[i] = "url(" /\ (\E j \in (i + 1)..Len(s) : s[j] = ")")
          /\ FirstClose(s, i) - i - 1 >= min
       THEN <<<<i, FirstClose(s, i)>>>> \o UrlSpansFrom(s, FirstClose(s, i) + 1, min)
       ELSE UrlSpansFrom(s, i + 1, min)

\* text.match(/url\([^)]+\)/g)
UrlMatches(s) ==
  LET sp == UrlSpansFrom(s, 1, 1) IN [k \in 1..Len(sp) |-> SubSeq(s, sp[k][1], sp[k][2])]

\* String.prototype.replace with one replacement text per match
RECURSIVE Rebuild(_, _, _, _)
Rebuild(s, spans, repls, pos) ==
  IF Len(spans) = 0 THEN SubSeq(s, pos, Len(s))
  ELSE SubSeq(s, pos, spans[1][1] - 1) \o repls[1]
         \o Rebuild(s, Tail(spans), Tail(repls), spans[1][2] + 1)

HasCorrupted(s) == \E i \in 1..Len(s) : s[i] = Corrupted

\* matches.find(url => !url.includes('[object Object]')); no match is the empty text
FirstValid(matches) ==
  IF \E k \in 1..Len(matches) : ~HasCorrupted(matches[k])
  THEN matches[CHOOSE k \in 1..Len(matches) :
                 ~HasCorrupted(matches[k]) /\ \A j \in 1..(k - 1) : HasCorrupted(matches[j])]
  ELSE <<>>

CorruptedUrl == <<"url(", Corrupted, ")">>

GenericAsset == <<"url(", ".", "/", "asset", ".css", ")">>

(***************************************************************************)
(* processInlineCss, lines 1575-1606.                                      *)
(***************************************************************************)
\* the text without its last corrupted token: url(${before}${after})
DropLastCorrupted(m) ==
  LET k == CHOOSE i \in 1..Len(m) : m[i] = Corrupted /\ \A j \in (i + 1)..Len(m) : m[j] # Corrupted
  IN  SubSeq(m, 1, k - 1) \o SubSeq(m, k + 1, Len(m))

processInlineCss(html) ==
  LET valid == FirstValid(UrlMatches(html))
      first == SplitJoin(html, CorruptedUrl, IF valid # <<>> THEN valid ELSE GenericAsset)
      all   == UrlSpansFrom(first, 1, 0)
      spans == SelectSeq(all, LAMBDA sp : HasCorrupted(SubSeq(first, sp[1], sp[2])))
      repls == [k \in 1..Len(spans) |-> DropLastCorrupted(SubSeq(first, spans[k][1], spans[k][2]))]
  IN  Rebuild(first, spans, repls, 1)

(***************************************************************************)
(* HTML rewrite loop, lines 2100-2113.                                     *)
(***************************************************************************)
htmlAssetsDir == PathJoin(baseOut, <<"assets">>)

savedHtmlPath == PathJoin(htmlAssetsDir, filename)

\* for (const [remoteUrl, localFullPath] of Object.entries(savedFiles)) split/join
RECURSIVE RewriteHtml(_, _)
RewriteHtml(html, sf) ==
  IF Len(sf) = 0 THEN html
  ELSE RewriteHtml(SplitJoin(html, sf[1].url, PathRelative(htmlAssetsDir, sf[1].path)),
                   Tail(sf))

(***************************************************************************)
(* processCssFiles, lines 1613-1823.                                       *)
(***************************************************************************)
\* /\.css(\?|$)/i.test(filePath)
IsCssPath(p) ==
  \E i \in 1..Len(p) : p[i] = ".css" /\ (i = Len(p) \/ IsQueryToken(p[i + 1]))

\* s.startsWith('/') || s.startsWith('../') || s.startsWith('./')
IsRelativeRef(c) ==
  \/ Len(c) >= 1 /\ c[1] = "/"
  \/ Len(c) >= 2 /\ c[1] \in {".", ".."} /\ c[2] = "/"

\* new URL(ref, base).toString() for a ref that IsRelativeRef
ResolveUrl(ref, base) ==
  LET dir  == Front(SplitOn(Pathname(base), "/"))
      segs == IF ref[1] = "/" THEN NormSegs(SplitOn(ref, "/"), <<>>)
              ELSE NormSegs(dir \o SplitOn(ref, "/"), <<>>)
  IN  <<base[1], "/">> \o JoinWith(segs, "/") \o (IF Last(ref) = "/" /\ Len(segs) > 0 THEN <<"/">> ELSE <<>>)

\* the replacement callback of lines 1627-1651 for one match
ManualToken(match, sf, cssDir) ==
  LET c == SubSeq(match, 2, Len(match) - 1)
  IN  IF HasCorrupted(c) THEN match
      ELSE IF IsDataUrl(c) \/ IsHttpUrl(c) THEN match
      ELSE IF IsRelativeRef(c) /\ Lookup(sf, ResolveUrl(c, PageUrl)) # NoSeq
           THEN <<"url(">> \o PathRelative(cssDir, Lookup(sf, ResolveUrl(c, PageUrl))) \o <<")">>
           ELSE match

\* lines 1624-1651
ManualPass(cssText, sf, cssDir) ==
  LET spans == UrlSpansFrom(cssText, 1, 1)
      repls == [k \in 1..Len(spans) |->
                  ManualToken(SubSeq(cssText, spans[k][1], spans[k][2]), sf, cssDir)]
  IN  Rebuild(cssText, spans, repls, 1)

StripQuotes(c) == SelectSeq(c, LAMBDA t : t \notin {"\"", "'"})

\* the url callback given to postcss-url, lines 1659-1769, and the url(...) the
\* plugin writes for what it returns.  asObject: the plugin hands the callback an asset
\* object, not a string (which of the two depends on the installed plugin version).
PostcssToken(match, asObject, cssText, sf, cssDir) ==
  LET c     == StripQuotes(SubSeq(match, 2, Len(match) - 1))
      valid == FirstValid(UrlMatches(cssText))
  IN  IF asObject \/ HasCorrupted(c)
      THEN IF valid # <<>> THEN <<"url(">> \o valid \o <<")">>
           ELSE IF asObject THEN CorruptedUrl ELSE match
      ELSE IF IsDataUrl(c) \/ IsHttpUrl(c) THEN <<"url(">> \o c \o <<")">>
      ELSE IF IsRelativeRef(c) /\ Lookup(sf, ResolveUrl(c, PageUrl)) # NoSeq
           THEN <<"url(">> \o PathRelative(cssDir, Lookup(sf, ResolveUrl(c, PageUrl))) \o <<")">>
           ELSE match

\* processor.process(cssText).css, line 1773
PostcssPass(cssText, asObject, sf, cssDir) ==
  LET spans == UrlSpansFrom(cssText, 1, 1)
      repls == [k \in 1..Len(spans) |->
                  PostcssToken(SubSeq(cssText, spans[k][1], spans[k][2]),
                               asObject, cssText, sf, cssDir)]
  IN  Rebuild(cssText, spans, repls, 1)

IsFontUrl(m) == \E i \in 1..Len(m) : m[i] \in {".woff", ".ttf", ".otf", ".eot"}

\* contextBefore.includes('@font-face') || contextBefore.includes('font-family')
FontContext(cssText, offset) ==
  \E i \in 1..(offset - 1) : i <= Len(cssText) /\ cssText[i] \in {"@font-face", "font-family:"}

\* the callback of lines 1780-1811 for the match at offset; <<"throws">> stands for the
\* ReferenceError of line 1807, where contextBefore is read outside the block declaring it
SafetyToken(cssText, offset) ==
  LET ms == UrlMatches(cssText)
      fonts == SelectSeq(ms, IsFontUrl)
      valid == FirstValid(ms)
  IN  IF Len(ms) > 0 /\ FontContext(cssText, offset) /\ Len(fonts) > 0 THEN fonts[1]
      ELSE IF Len(ms) > 0 /\ valid # <<>> THEN valid
      ELSE <<"throws">>

\* lines 1775-1812: [ok |-> FALSE] when the callback throws
FinalSafety(resultCss, cssText) ==
  IF ~HasCorrupted(resultCss) THEN [ok |-> TRUE, css |-> resultCss]
  ELSE LET all   == UrlSpansFrom(resultCss, 1, 1)
           spans == SelectSeq(all, LAMBDA sp : SubSeq(resultCss, sp[1], sp[2]) = CorruptedUrl)
           repls == [k \in 1..Len(spans) |-> SafetyToken(cssText, spans[k][1])]
       IN  IF \E k \in 1..Len(repls) : repls[k] = <<"throws">>
           THEN [ok |-> FALSE, css |-> NoSeq]
           ELSE [ok |-> TRUE, css |-> Rebuild(resultCss, spans, repls, 1)]

\* Object.values(savedFiles).filter(...), lines 1614-1616
CssFilesOf(sf) ==
  LET vals == [i \in 1..Len(sf) |-> sf[i].path] IN SelectSeq(vals, IsCssPath)

(***************************************************************************)
(* Session state.                                                          *)
(***************************************************************************)
VARIABLES
  mpc,             \* position of process.on('message') between its awaits
  browserOpen,     \* the launched browser has not been closed
  handlers,        \* per response: position of page.on('response') and its locals
  disk,            \* path -> content of the files under the output directory
  savedFiles,      \* remoteUrl -> localFullPath, in insertion order
  apiLogs,         \* the apiLogs array
  processedFiles,
  downloadedFiles,
  skippedFiles,
  sent,            \* the messages given to process.send, in send order
  written,         \* history: the asset writes that succeeded, [url, path] each
  siteCss,         \* the stylesheet text the site serves
  transformedHtml, \* the rewritten page HTML, between the snapshot and its write
  cssFiles,        \* processCssFiles: the list it iterates
  cssIdx,          \* processCssFiles: index of the current file
  cssText,         \* processCssFiles: the text read from the current file
  cssOut,          \* processCssFiles: the text about to be written
  logIdx,          \* saveApiLogs: index of the current entry
  jsonOut,         \* saveApiLogs: the serialized array given to fs.outputJson
  logFiles,        \* file name -> content of the files under logs/
  classificationCache, \* URLClassifier: cacheKey -> classification
  returned,        \* URLClassifier: how the last call ended, and its result
  analysis,        \* StaticAnalyzer: the last analyzeHtml call, input and result
  derivation,      \* one save path derivation of the response handler: input and result
  worker,          \* start-clone: the forked worker process
  ipc,             \* start-clone: the messages the worker sent and main has not received
  promise,         \* start-clone: the promise the handler returned
  forwarded,       \* start-clone: the payloads sent to the window as 'clone-progress'
  serverHandle,    \* main.js: the handle of the static server
  server,          \* static-server.js: the module's server, 0 for null
  instances,       \* static-server.js: the server instances created, by creating call
  toggles          \* toggle-server: per call, its position, locals and response

vars == <<mpc, browserOpen, handlers, disk, savedFiles, apiLogs,
          processedFiles, downloadedFiles, skippedFiles, sent, written,
          siteCss, transformedHtml, cssFiles, cssIdx, cssText, cssOut, logIdx, jsonOut, logFiles,
          classificationCache, returned, analysis, derivation,
          worker, ipc, promise, forwarded, serverHandle, server, instances, toggles>>

\* the state of the main process's IPC handlers
startCloneVars == <<worker, ipc, promise, forwarded>>

toggleVars == <<serverHandle, server, instances, toggles>>

\* the state outside the clone worker and the utility classes
appVars == <<derivation, startCloneVars, toggleVars>>

\* the state of the utility classes and of the main process, which the clone worker
\* does not touch
utilVars == <<classificationCache, returned, analysis, appVars>>

\* the state of the clone worker
cloneVars == <<mpc, browserOpen, handlers, disk, savedFiles, apiLogs,
               processedFiles, downloadedFiles, skippedFiles, sent, written,
               siteCss, transformedHtml, cssFiles, cssIdx, cssText, cssOut, logIdx,
               jsonOut, logFiles>>

mainVars == <<mpc, browserOpen, transformedHtml, cssFiles, cssIdx, cssText, cssOut,
              logIdx, jsonOut, logFiles>>

Resp == 1..MaxResp

\* what the server can answer for a URL (an image answer may differ from an earlier one)
Bodies(url) ==
  IF url = CssUrl THEN {siteCss}
  ELSE IF url = ImgUrl THEN {Png1, Png2}
  ELSE IF url = ImgUrlV2 THEN {PngV2}
  ELSE IF url = DocUrl THEN {<<"<html>", "</html>">>}
  ELSE {<<"{}">>}

Idle == [pc |-> "idle", url |-> NoSeq, role |-> "", buffer |-> NoSeq, savePath |-> NoSeq]

\* a handler that has returned: its locals are gone
Returned == [Idle EXCEPT !.pc = "done"]

Exists(d, p) == p \in DOMAIN d

\* fs.outputFile(p, content)
WriteFile(d, p, content) == [q \in DOMAIN d \cup {p} |-> IF q = p THEN content ELSE d[q]]

\* SavedMsg with the 'downloaded' message built without the skipped counter
SavedMsgDroppingSkipped(url, path, status, proc, down, skip) ==
  [type |-> "progress", kind |-> "savedResource", url |-> url, path |-> path,
   status |-> status, total |-> proc, processed |-> proc, downloaded |-> down,
   skipped |-> IF status = "downloaded" THEN 0 ELSE skip, percentage |-> 100]

\* the payload of a savedResource progress message (lines 2014-2031, 2039-2055)
SavedMsg(url, path, status, proc, down, skip) ==
  [type |-> "progress", kind |-> "savedResource", url |-> url, path |-> path,
   status |-> status, total |-> proc, processed |-> proc, downloaded |-> down,
   skipped |-> skip, percentage |-> 100]

PlainMsg(type, kind, url) ==
  [type |-> type, kind |-> kind, url |-> url, path |-> NoSeq, status |-> "",
   total |-> 0, processed |-> 0, downloaded |-> 0, skipped |-> 0, percentage |-> 0]

\* the 'done' message of lines 2133-2141: savedFullPath and savedRelativePath
DoneMsg ==
  [type |-> "done", kind |-> "", url |-> NoSeq, path |-> savedHtmlPath,
   savedRelativePath |-> PathBasename(savedHtmlPath), status |-> "",
   total |-> 0, processed |-> 0, downloaded |-> 0, skipped |-> 0, percentage |-> 0]

\* new Map() of the URLClassifier constructor (url-classifier.js line 46)
NoCache == [k \in {} |-> <<>>]

\* the place of a result where a call gave none
NoResult == [type |-> "", confidence |-> 0, reason |-> "",
             url |-> [kind |-> "undefined", text |-> <<"undefined">>], method |-> "",
             fileType |-> ""]

\* no method of the classifier has been called yet
NoCall == [how |-> "none", op |-> "", value |-> NoResult, computed |-> FALSE]

\* analyzeHtml has not been called yet
NoAnalysis == [called |-> FALSE, html |-> <<>>, baseUrl |-> <<>>,
               staticFiles |-> <<>>, skippedFiles |-> <<>>]

\* files left in the output directory by an earlier session
OldPng == <<"PNG-0">>

\* no path derivation is under study
NoDerivation == [url |-> <<>>, role |-> "", derived |-> FALSE, savePath |-> <<>>]

\* a promise that is neither fulfilled nor rejected
Pending == [state |-> "pending", value |-> ""]

\* no worker has been forked
NoWorker == [state |-> "none", sends |-> 0, terminal |-> FALSE, errored |-> FALSE]

\* no start-clone call has been made
StartCloneIdle ==
  /\ worker = NoWorker
  /\ ipc = <<>>
  /\ promise = Pending
  /\ forwarded = <<>>

\* let serverHandle = null (main.js line 115)
NullHandle == [kind |-> "null", inst |-> 0, port |-> 0, url |-> 0]

\* no toggle-server call has been made (main.js line 115, static-server.js line 6)
ToggleIdle ==
  /\ serverHandle = NullHandle
  /\ server = 0
  /\ instances = <<>>
  /\ toggles = <<>>

AppIdle ==
  /\ derivation = NoDerivation
  /\ StartCloneIdle
  /\ ToggleIdle

\* new URLClassifier(), new StaticAnalyzer(): nothing called yet
UtilIdle ==
  /\ classificationCache = NoCache
  /\ returned = NoCall
  /\ analysis = NoAnalysis

InitialDisks == { [p \in {} |-> OldPng], [p \in {SavePath(ImgUrl, "image")} |-> OldPng] }

Init ==
  /\ mpc = "launch"
  /\ browserOpen = FALSE
  /\ handlers = [h \in Resp |-> Idle]
  /\ disk \in InitialDisks
  /\ savedFiles = <<>>
  /\ apiLogs = <<>>
  /\ processedFiles = 0
  /\ downloadedFiles = 0
  /\ skippedFiles = 0
  /\ sent = <<>>
  /\ written = <<>>
  /\ siteCss \in CssTexts
  /\ transformedHtml = NoSeq
  /\ cssFiles = <<>>
  /\ cssIdx = 0
  /\ cssText = NoSeq
  /\ cssOut = NoSeq
  /\ logIdx = 0
  /\ jsonOut = <<>>
  /\ logFiles = [n \in {} |-> <<>>]
  /\ classificationCache = NoCache
  /\ returned = NoCall
  /\ analysis = NoAnalysis
  /\ AppIdle


(***************************************************************************)
(* page.on('response'), lines 1947-2062.  One action per stretch of the    *)
(* handler between two awaits.                                             *)
(***************************************************************************)
Send(msg) == sent' = Append(sent, msg)

SetH(h, rec) == handlers' = [handlers EXCEPT ![h] = rec]

\* responses are numbered in arrival order
NextToArrive(h) == handlers[h].pc = "idle" /\ \A g \in 1..(h - 1) : handlers[g].pc # "idle"

\* StaticPart without the data URL test of line 1981
StaticPartNoDataTest(h, me, out) ==
  IF me.role \in StaticRoles
  THEN /\ sent' = out
       /\ SetH(h, [me EXCEPT !.pc = "buffer"])
  ELSE /\ sent' = out
       /\ SetH(h, Returned)

\* lines 1979-1991, the second if of the handler: a data URL is reported and dropped,
\* another static resource starts response.buffer(), any other role returns
StaticPart(h, me, out) ==
  IF me.role \in StaticRoles
  THEN IF IsDataUrl(me.url)
       THEN /\ sent' = Append(out, PlainMsg("progress", "skippedResource", me.url))
            /\ SetH(h, Returned)
       ELSE /\ sent' = out
            /\ SetH(h, [me EXCEPT !.pc = "buffer"])
  ELSE /\ sent' = out
       /\ SetH(h, Returned)

\* lines 1948-1958: the event fires for the exchange rq and the handler runs to its
\* first await
Arrive(h, rq) ==
  /\ browserOpen
  /\ NextToArrive(h)
  /\ LET me == [Idle EXCEPT !.url = rq.url, !.role = rq.role]
     IN  IF rq.role \in ApiRoles
         THEN /\ SetH(h, [me EXCEPT !.pc = "text"])
              /\ UNCHANGED sent
         ELSE StaticPart(h, me, sent)
  /\ UNCHANGED <<mainVars, utilVars, siteCss, disk, savedFiles, apiLogs, processedFiles,
                 downloadedFiles, skippedFiles, written>>

Response(h) == \E rq \in Requests : Arrive(h, rq)

\* lines 1956-1976: response.text() settles (a rejection leaves body = ''), the entry
\* is pushed and apiCaptured is sent; then the second if of the handler
TextRead(h) ==
  /\ handlers[h].pc = "text"
  /\ \E body \in Bodies(handlers[h].url) \cup {NoSeq} :
       /\ browserOpen \/ body = NoSeq
       /\ apiLogs' = Append(apiLogs, [method |-> "GET", url |-> handlers[h].url,
                                       responseText |-> body])
  /\ StaticPart(h, handlers[h],
                Append(sent, PlainMsg("progress", "apiCaptured", handlers[h].url)))
  /\ UNCHANGED <<mainVars, utilVars, siteCss, disk, savedFiles, processedFiles,
                 downloadedFiles, skippedFiles, written>>

\* lines 1989-2009: response.buffer() settles; a non-empty buffer is counted, its
\* save path derived and fs.pathExists started
BufferRead(h) ==
  /\ handlers[h].pc = "buffer"
  /\ \E buf \in Bodies(handlers[h].url) \cup {NoSeq} :
       /\ browserOpen \/ buf = NoSeq
       /\ IF buf # NoSeq
          THEN /\ processedFiles' = processedFiles + 1
               /\ SetH(h, [handlers[h] EXCEPT !.pc = "exists", !.buffer = buf,
                             !.savePath = SavePath(handlers[h].url, handlers[h].role)])
          ELSE /\ SetH(h, Returned)
               /\ UNCHANGED processedFiles
  /\ UNCHANGED <<mainVars, utilVars, siteCss, disk, savedFiles, apiLogs,
                 downloadedFiles, skippedFiles, sent, written>>

\* PathExists with the file written in the skip branch as well
PathExistsOverwriting(h) ==
  /\ handlers[h].pc = "exists"
  /\ LET me == handlers[h]
     IN  IF Exists(disk, me.savePath)
         THEN /\ skippedFiles' = skippedFiles + 1
              /\ savedFiles' = SetKey(savedFiles, me.url, me.savePath)
              /\ disk' = WriteFile(disk, me.savePath, me.buffer)
              /\ Send(SavedMsg(me.url, me.savePath, "skipped",
                               processedFiles, downloadedFiles, skippedFiles + 1))
              /\ SetH(h, Returned)
              /\ UNCHANGED downloadedFiles
         ELSE /\ downloadedFiles' = downloadedFiles + 1
              /\ SetH(h, [me EXCEPT !.pc = "ensureDir"])
              /\ UNCHANGED <<skippedFiles, savedFiles, sent, disk>>
  /\ UNCHANGED <<mainVars, utilVars, siteCss, apiLogs, processedFiles, written>>

\* lines 2009-2035: fs.pathExists settles; the skip branch, or the start of the download
PathExists(h) ==
  /\ handlers[h].pc = "exists"
  /\ LET me == handlers[h]
     IN  IF Exists(disk, me.savePath)
         THEN /\ skippedFiles' = skippedFiles + 1
              /\ savedFiles' = SetKey(savedFiles, me.url, me.savePath)
              /\ Send(SavedMsg(me.url, me.savePath, "skipped",
                               processedFiles, downloadedFiles, skippedFiles + 1))
              /\ SetH(h, Returned)
              /\ UNCHANGED downloadedFiles
         ELSE /\ downloadedFiles' = downloadedFiles + 1
              /\ SetH(h, [me EXCEPT !.pc = "ensureDir"])
              /\ UNCHANGED <<skippedFiles, savedFiles, sent>>
  /\ UNCHANGED <<mainVars, utilVars, siteCss, disk, apiLogs, processedFiles, written>>

\* EnsureDir with a rejection reported as a session error
EnsureDirFatal(h) ==
  /\ handlers[h].pc = "ensureDir"
  /\ \E ok \in BOOLEAN :
       /\ SetH(h, IF ok THEN [handlers[h] EXCEPT !.pc = "outputFile"] ELSE Returned)
       /\ IF ok THEN UNCHANGED sent ELSE Send(PlainMsg("error", "ensureDir", NoSeq))
  /\ UNCHANGED <<mainVars, utilVars, siteCss, disk, savedFiles, apiLogs, processedFiles,
                 downloadedFiles, skippedFiles, written>>

\* line 2035: fs.ensureDir settles; a rejection goes to the catch of line 2059
EnsureDir(h) ==
  /\ handlers[h].pc = "ensureDir"
  /\ \E ok \in BOOLEAN :
       SetH(h, IF ok THEN [handlers[h] EXCEPT !.pc = "outputFile"] ELSE Returned)
  /\ UNCHANGED <<mainVars, utilVars, siteCss, disk, savedFiles, apiLogs, processedFiles,
                 downloadedFiles, skippedFiles, sent, written>>

\* lines 2036-2055: fs.outputFile settles; mapping and 'downloaded' message, or the catch
OutputFile(h) ==
  /\ handlers[h].pc = "outputFile"
  /\ LET me == handlers[h]
     IN  \E ok \in BOOLEAN :
           IF ok
           THEN /\ disk' = WriteFile(disk, me.savePath, me.buffer)
                /\ written' = Append(written, [url |-> me.url, path |-> me.savePath])
                /\ savedFiles' = SetKey(savedFiles, me.url, me.savePath)
                /\ Send(SavedMsg(me.url, me.savePath, "downloaded",
                                 processedFiles, downloadedFiles, skippedFiles))
                /\ SetH(h, Returned)
           ELSE /\ SetH(h, Returned)
                /\ UNCHANGED <<disk, written, savedFiles, sent>>
  /\ UNCHANGED <<mainVars, utilVars, siteCss, apiLogs, processedFiles, downloadedFiles, skippedFiles>>

HandlerStep ==
  \E h \in Resp :
    \/ Response(h)
    \/ TextRead(h)
    \/ BufferRead(h)
    \/ PathExists(h)
    \/ EnsureDir(h)
    \/ OutputFile(h)

(***************************************************************************)
(* process.on('message'), lines 1876-2148: launch, navigation, rewrite,    *)
(* CSS pass, log flush, close, done.  One action per await.                *)
(***************************************************************************)
HtmlPlain == <<"<link href=">> \o CssUrl \o <<">", "<img src=">> \o ImgUrl \o <<">">>

HtmlInline ==
  <<"<div style=background:", "url(", Corrupted, ")", ">", "<img src=">> \o ImgUrl \o <<">">>

\* what page.content() can return
HtmlTexts == {HtmlPlain, HtmlInline}

\* the catch without its process.send
FailUnreported ==
  /\ UNCHANGED sent
  /\ mpc' = "error"

\* the catch of lines 2143-2148; the payload is the error's stack, which names the
\* await that rejected
Fail ==
  /\ Send(PlainMsg("error", mpc, NoSeq))
  /\ mpc' = "error"

\* the locals of the rewrite and flush steps, dead once the handler has left them
DropLocals ==
  /\ transformedHtml' = NoSeq
  /\ cssFiles' = <<>>
  /\ cssIdx' = 0
  /\ cssText' = NoSeq
  /\ cssOut' = NoSeq
  /\ logIdx' = 0
  /\ jsonOut' = <<>>

\* encodeURIComponent(t).replace(/%/g, '_') of one token
EncodeToken(t) ==
  CASE t = "https://x.com" -> "https_3A_2F_2Fx.com"
    [] t = "https://y.com" -> "https_3A_2F_2Fy.com"
    [] t = "http://x.com"  -> "http_3A_2F_2Fx.com"
    [] t = "/"             -> "_2F"
    [] t = "?v=1"          -> "_3Fv_3D1"
    [] t = "?v=2"          -> "_3Fv_3D2"
    [] OTHER               -> t

\* the number of characters of an encoded token
CharLen(t) ==
  CASE t \in {"https_3A_2F_2Fx.com", "https_3A_2F_2Fy.com"} -> 19
    [] t = "http_3A_2F_2Fx.com" -> 18
    [] t = "_2F" -> 3
    [] t \in {"_3Fv_3D1", "_3Fv_3D2"} -> 8
    [] t \in {"api", "css", "img"} -> 3
    [] OTHER -> 1

NameLimit == 230

\* s.slice(0, n): the longest prefix of at most n characters
RECURSIVE Slice(_, _)
Slice(s, n) ==
  IF Len(s) = 0 \/ CharLen(s[1]) > n THEN <<>>
  ELSE <<s[1]>> \o Slice(Tail(s), n - CharLen(s[1]))

\* lines 1832-1837: the file name of one entry
SafeFilename(url) ==
  Append(Slice([i \in 1..Len(url) |-> EncodeToken(url[i])], NameLimit), ".json")

WriteLog(name, content) ==
  logFiles' = [n \in DOMAIN logFiles \cup {name} |-> IF n = name THEN content ELSE logFiles[n]]

sessVars == <<handlers, savedFiles, apiLogs, processedFiles, downloadedFiles,
              skippedFiles, written, siteCss, utilVars>>

\* a rejected await of the main handler: the catch sends 'error'
Caught ==
  /\ Fail
  /\ DropLocals
  /\ UNCHANGED <<browserOpen, disk, logFiles>>

\* saveApiLogs is called and runs to its first await (lines 1830-1847)
BeginApiLogs ==
  /\ transformedHtml' = NoSeq
  /\ cssFiles' = <<>>
  /\ cssIdx' = 0
  /\ IF Len(apiLogs) >= 1
     THEN /\ mpc' = "logEntry"
          /\ logIdx' = 1
          /\ UNCHANGED jsonOut
     ELSE /\ mpc' = "apiJson"
          /\ jsonOut' = apiLogs
          /\ UNCHANGED logIdx

\* the for loop of line 1618 moves on from the current file
AfterCss ==
  IF cssIdx < Len(cssFiles)
  THEN /\ mpc' = "cssRead"
       /\ cssIdx' = cssIdx + 1
       /\ UNCHANGED <<transformedHtml, cssFiles, logIdx, jsonOut>>
  ELSE BeginApiLogs

\* options.networkData: none, or the resources of a passive observation of the page
NetworkHints == {<<>>, <<[url |-> ImgUrl]>>}

\* lines 1920-1934: every resource URL the mapping does not hold is mapped to itself
RECURSIVE SeedSavedFiles(_, _)
SeedSavedFiles(sf, resources) ==
  IF Len(resources) = 0 THEN sf
  ELSE LET resourceUrl == resources[1].url
       IN  SeedSavedFiles(IF resourceUrl # NoSeq /\ Lookup(sf, resourceUrl) = NoSeq
                          THEN SetKey(sf, resourceUrl, resourceUrl) ELSE sf,
                          Tail(resources))

\* lines 1876-1945: the output directories are ensured, the browser launched, the page
\* opened, the mapping seeded from options.networkData and the response handler
\* registered; page.goto is started.  A rejected fs.ensureDir or puppeteer.launch goes
\* to the catch
Launch ==
  /\ mpc = "launch"
  /\ \/ /\ mpc' = "goto"
        /\ browserOpen' = TRUE
        /\ \E resources \in NetworkHints : savedFiles' = SeedSavedFiles(<<>>, resources)
        /\ UNCHANGED <<sent, disk, logFiles, transformedHtml, cssFiles,
                       cssIdx, cssText, cssOut, logIdx, jsonOut>>
     \/ /\ Caught
        /\ UNCHANGED savedFiles
  /\ UNCHANGED <<handlers, apiLogs, processedFiles, downloadedFiles,
                 skippedFiles, written, siteCss, utilVars>>

\* line 2089: page.goto settles
Goto ==
  /\ mpc = "goto"
  /\ \/ /\ mpc' = "settle"
        /\ UNCHANGED <<sent, browserOpen, disk, logFiles, transformedHtml, cssFiles,
                       cssIdx, cssText, cssOut, logIdx, jsonOut>>
     \/ Caught
  /\ UNCHANGED sessVars

\* line 2095: the settle timer fires, page.content() is started
Settle ==
  /\ mpc = "settle"
  /\ mpc' = "content"
  /\ UNCHANGED <<sent, browserOpen, disk, logFiles, transformedHtml, cssFiles,
                 cssIdx, cssText, cssOut, logIdx, jsonOut>>
  /\ UNCHANGED sessVars

\* lines 2098-2116: page.content() settles; the HTML is rewritten with the mapping of
\* this moment and repaired, fs.ensureDir is started
Content ==
  /\ mpc = "content"
  /\ \/ \E pageHtml \in HtmlTexts :
          /\ transformedHtml' = processInlineCss(RewriteHtml(pageHtml, savedFiles))
          /\ mpc' = "writeHtml"
          /\ UNCHANGED <<sent, browserOpen, disk, logFiles, cssFiles,
                         cssIdx, cssText, cssOut, logIdx, jsonOut>>
     \/ Caught
  /\ UNCHANGED sessVars

\* lines 2116-2120 and 1614-1620: ensureDir and outputFile of the HTML settle;
\* processCssFiles is called, lists the stylesheets and starts its first read
WriteHtml ==
  /\ mpc = "writeHtml"
  /\ \/ /\ disk' = WriteFile(disk, savedHtmlPath, transformedHtml)
        /\ IF Len(CssFilesOf(savedFiles)) >= 1
           THEN /\ mpc' = "cssRead"
                /\ cssFiles' = CssFilesOf(savedFiles)
                /\ cssIdx' = 1
                /\ transformedHtml' = NoSeq
                /\ UNCHANGED <<logIdx, jsonOut>>
           ELSE BeginApiLogs
        /\ UNCHANGED <<sent, browserOpen, logFiles, cssText, cssOut>>
     \/ Caught
  /\ UNCHANGED sessVars

\* lines 1620-1654: fs.readFile settles; the manual pass runs with the mapping of this
\* moment; its result is written, or the postcss fallback is started; a rejected read
\* goes to the catch of line 1819
CssRead ==
  /\ mpc = "cssRead"
  /\ LET cssPath == cssFiles[cssIdx]
     IN  \/ /\ Exists(disk, cssPath)
            /\ LET processedCss == ManualPass(disk[cssPath], savedFiles, PathDirname(cssPath))
               IN  IF HasCorrupted(processedCss)
                   THEN /\ mpc' = "cssPostcss"
                        /\ cssText' = disk[cssPath]
                        /\ UNCHANGED cssOut
                   ELSE /\ mpc' = "cssWrite"
                        /\ cssOut' = processedCss
                        /\ UNCHANGED cssText
            /\ UNCHANGED <<transformedHtml, cssFiles, cssIdx, logIdx, jsonOut>>
         \/ /\ AfterCss
            /\ UNCHANGED <<cssText, cssOut>>
  /\ UNCHANGED <<sent, browserOpen, disk, logFiles>>
  /\ UNCHANGED sessVars

\* lines 1773-1814: processor.process settles; the final safety replace runs; when it
\* throws, the catch of line 1819 leaves the file as it was
CssPostcss ==
  /\ mpc = "cssPostcss"
  /\ LET cssDir == PathDirname(cssFiles[cssIdx])
     IN  \E asObject \in BOOLEAN :
           LET r == FinalSafety(PostcssPass(cssText, asObject, savedFiles, cssDir), cssText)
           IN  IF r.ok
               THEN /\ mpc' = "cssWrite"
                    /\ cssOut' = r.css
                    /\ UNCHANGED <<transformedHtml, cssFiles, cssIdx, logIdx, jsonOut>>
               ELSE /\ AfterCss
                    /\ UNCHANGED cssOut
  /\ cssText' = NoSeq
  /\ UNCHANGED <<sent, browserOpen, disk, logFiles>>
  /\ UNCHANGED sessVars

\* CssWrite with a rejected write taken to the catch of the message handler
CssWriteFatal ==
  /\ mpc = "cssWrite"
  /\ \/ /\ disk' = WriteFile(disk, cssFiles[cssIdx], cssOut)
        /\ cssOut' = NoSeq
        /\ AfterCss
        /\ UNCHANGED <<sent, browserOpen, logFiles, cssText>>
     \/ Caught
  /\ UNCHANGED sessVars

\* lines 1814-1821: fs.outputFile of the stylesheet settles
CssWrite ==
  /\ mpc = "cssWrite"
  /\ \/ disk' = WriteFile(disk, cssFiles[cssIdx], cssOut)
     \/ UNCHANGED disk
  /\ cssOut' = NoSeq
  /\ AfterCss
  /\ UNCHANGED <<sent, browserOpen, logFiles, cssText>>
  /\ UNCHANGED sessVars

\* lines 1831-1847: the write of one per-request file settles
LogEntry ==
  /\ mpc = "logEntry"
  /\ \/ /\ WriteLog(SafeFilename(apiLogs[logIdx].url), <<apiLogs[logIdx]>>)
        /\ IF logIdx < Len(apiLogs)
           THEN /\ logIdx' = logIdx + 1
                /\ UNCHANGED <<mpc, jsonOut>>
           ELSE /\ mpc' = "apiJson"
                /\ jsonOut' = apiLogs
                /\ logIdx' = 0
        /\ UNCHANGED <<sent, browserOpen, disk, transformedHtml, cssFiles, cssIdx,
                       cssText, cssOut>>
     \/ Caught
  /\ UNCHANGED sessVars

\* lines 1843-1847 and 2124: api_logs.json is written, ws_logs.json is started
ApiJson ==
  /\ mpc = "apiJson"
  /\ \/ /\ WriteLog(<<"api_logs", ".json">>, jsonOut)
        /\ mpc' = "wsJson"
        /\ jsonOut' = <<>>
        /\ UNCHANGED <<sent, browserOpen, disk, transformedHtml, cssFiles, cssIdx,
                       cssText, cssOut, logIdx>>
     \/ Caught
  /\ UNCHANGED sessVars

\* lines 2124-2130: ws_logs.json is written, browser.close() is started
WsJson ==
  /\ mpc = "wsJson"
  /\ \/ /\ WriteLog(<<"ws_logs", ".json">>, <<>>)
        /\ mpc' = "close"
        /\ UNCHANGED <<sent, browserOpen, disk, transformedHtml, cssFiles, cssIdx,
                       cssText, cssOut, logIdx, jsonOut>>
     \/ Caught
  /\ UNCHANGED sessVars

\* Close with 'done' sent while the browser is still open
CloseLeavingOpen ==
  /\ mpc = "close"
  /\ \/ /\ Send(DoneMsg)
        /\ mpc' = "done"
        /\ UNCHANGED <<browserOpen, disk, logFiles, transformedHtml, cssFiles, cssIdx,
                       cssText, cssOut, logIdx, jsonOut>>
     \/ Caught
  /\ UNCHANGED sessVars

\* lines 2130-2141: browser.close() settles, 'done' is sent
Close ==
  /\ mpc = "close"
  /\ \/ /\ browserOpen' = FALSE
        /\ Send(DoneMsg)
        /\ mpc' = "done"
        /\ UNCHANGED <<disk, logFiles, transformedHtml, cssFiles, cssIdx,
                       cssText, cssOut, logIdx, jsonOut>>
     \/ Caught
  /\ UNCHANGED sessVars

MainStep ==
  \/ Launch
  \/ Goto
  \/ Settle
  \/ Content
  \/ WriteHtml
  \/ CssRead
  \/ CssPostcss
  \/ CssWrite
  \/ LogEntry
  \/ ApiJson
  \/ WsJson
  \/ Close

Next == HandlerStep \/ MainStep


Spec == Init /\ [][Next]_vars

\* the main flow with every await after the navigation fulfilled
MainOk == MainStep /\ (mpc \in {"launch", "goto"} \/ mpc' # "error")

IsolatedNext == HandlerStep \/ MainOk

\* ENABLED <<MainOk>>_vars: an await of the main flow is pending; whatever the
\* response handlers have done, it has a fulfilled outcome
MainEnabled == mpc \notin {"done", "error"}

\* sessions in which only the launch, the navigation and the operations on single
\* responses can fail; every pending await of the main flow settles: WF_vars(MainOk),
\* written with MainEnabled for its ENABLED
IsolatedSpec ==
  Init /\ [][IsolatedNext]_vars /\ ([]<>(~MainEnabled) \/ []<><<MainOk>>_vars)


(***************************************************************************)
(* Properties of the capture session.                                      *)
(***************************************************************************)
IsSaved(m) == m.type = "progress" /\ m.kind = "savedResource"

IsStatus(m, st) == IsSaved(m) /\ m.status = st

\* the number of savedResource messages sent with the status
CountStatus(st) == Cardinality({i \in 1..Len(sent) : IsStatus(sent[i], st)})

Quiescent == \A h \in Resp : handlers[h].pc \in {"idle", "done"}

\* the handler h makes this step
Steps(h) == handlers'[h] # handlers[h]

\* C1: two responses for the same remote URL never both write the file: over a
\* session no URL has more than one successful asset write.
C1_WrittenAtMostOnce ==
  \A i, j \in 1..Len(written) : written[i].url = written[j].url => i = j

C3_DataUrlDropped ==
  [][\A h \in Resp : \A rq \in Requests :
       (Arrive(h, rq) /\ rq.role \in StaticRoles /\ IsDataUrl(rq.url))
       => /\ sent' = Append(sent, PlainMsg("progress", "skippedResource", rq.url))
          /\ handlers'[h].pc = "done"
          /\ UNCHANGED <<disk, written, savedFiles, apiLogs,
                         processedFiles, downloadedFiles, skippedFiles>>]_vars

C3_Witness ==
  /\ \E i \in 1..Len(sent) : sent[i].kind = "skippedResource" /\ IsDataUrl(sent[i].url)
  /\ handlers[1].pc = "done"
  /\ processedFiles = 0
  /\ savedFiles = <<>>

IsApiCaptured(m) == m.type = "progress" /\ m.kind = "apiCaptured"

CountApiCaptured(msgs) == Cardinality({i \in 1..Len(msgs) : IsApiCaptured(msgs[i])})

\* C4: a response of role xhr or fetch appends one entry to the API log and sends one
\* apiCaptured message, and no step of it writes a file or changes the mapping or a
\* counter; no step of a response of a static role appends to the API log or sends
\* apiCaptured.
C4_RoutingExclusive ==
  [][/\ \A h \in Resp : \A rq \in Requests :
          Arrive(h, rq) =>
            /\ apiLogs' = apiLogs
            /\ rq.role \in ApiRoles =>
                 /\ handlers'[h].pc = "text"
                 /\ UNCHANGED <<sent, disk, written, savedFiles,
                                processedFiles, downloadedFiles, skippedFiles>>
     /\ \A h \in Resp :
          (Steps(h) /\ handlers[h].role \in ApiRoles) =>
            /\ Len(apiLogs') = Len(apiLogs) + 1
            /\ Last(apiLogs').url = handlers[h].url
            /\ sent' = Append(sent, PlainMsg("progress", "apiCaptured", handlers[h].url))
            /\ handlers'[h].pc = "done"
            /\ UNCHANGED <<disk, written, savedFiles,
                           processedFiles, downloadedFiles, skippedFiles>>
     /\ \A h \in Resp :
          (Steps(h) /\ handlers[h].role \in StaticRoles) =>
            /\ apiLogs' = apiLogs
            /\ CountApiCaptured(sent') = CountApiCaptured(sent)]_vars

\* one exchange went to the API log and one to the asset tree
C4_Witness ==
  /\ Len(apiLogs) = 1
  /\ CountApiCaptured(sent) = 1
  /\ downloadedFiles = 1
  /\ Len(written) = 1
  /\ Quiescent

\* C5: in send order the processed, downloaded and skipped values of the savedResource
\* messages never decrease, and none exceeds the live counter.
C5_ProgressMonotone ==
  /\ \A i, j \in 1..Len(sent) :
       (i < j /\ IsSaved(sent[i]) /\ IsSaved(sent[j])) =>
         /\ sent[i].processed <= sent[j].processed
         /\ sent[i].downloaded <= sent[j].downloaded
         /\ sent[i].skipped <= sent[j].skipped
  /\ \A i \in 1..Len(sent) :
       IsSaved(sent[i]) =>
         /\ sent[i].processed <= processedFiles
         /\ sent[i].downloaded <= downloadedFiles
         /\ sent[i].skipped <= skippedFiles

\* a download is reported after a skip, both counters having moved
C5_Witness ==
  /\ Len(sent) = 2
  /\ IsStatus(sent[1], "skipped") /\ sent[1].skipped = 1 /\ sent[1].downloaded = 0
  /\ IsStatus(sent[2], "downloaded") /\ sent[2].skipped = 1 /\ sent[2].downloaded = 1
  /\ sent[2].processed = 2

\* C6: whenever no response handler is between two of its awaits, the downloaded counter
\* equals the number of 'downloaded' messages and of successful writes, and the skipped
\* counter the number of 'skipped' messages.
C6_CountersMatchEvents ==
  Quiescent =>
    /\ downloadedFiles = CountStatus("downloaded")
    /\ downloadedFiles = Len(written)
    /\ skippedFiles = CountStatus("skipped")


(***************************************************************************)
(* Properties of the rewrite pass.                                         *)
(***************************************************************************)
\* 'done' is the last message sent: the mapping is the one of that moment
DoneJustSent == mpc = "done" /\ Len(sent) > 0 /\ Last(sent).type = "done"

\* the captured stylesheets: the mapping values processCssFiles would list
CapturedCss == {savedFiles[i].path : i \in {j \in 1..Len(savedFiles) : IsCssPath(savedFiles[j].path)}}

\* C7: when 'done' is sent, neither the final HTML nor a captured stylesheet on disk
\* holds an occurrence of a remote URL that is a key of the mapping.
C7_RewriteComplete ==
  DoneJustSent =>
    \A i \in 1..Len(savedFiles) :
      /\ ~Includes(disk[savedHtmlPath], savedFiles[i].url)
      /\ \A css \in CapturedCss :
           Exists(disk, css) => ~Includes(disk[css], savedFiles[i].url)

\* the mapping entries in the order p
Reordered(sf, p) == [i \in 1..Len(sf) |-> sf[p[i]]]

\* C8: for every mapping the session reaches and every HTML text of the page, the
\* substitution loop gives the same text for every order of the mapping entries.
C8_OrderIndependent ==
  \A html \in HtmlTexts :
    \A p \in Permutations(1..Len(savedFiles)) :
      RewriteHtml(html, Reordered(savedFiles, p)) = RewriteHtml(html, savedFiles)

\* a url(...) construct that holds the corrupted token
HasCorruptedUrl(text) ==
  LET sp == UrlSpansFrom(text, 1, 0)
  IN  \E k \in 1..Len(sp) : HasCorrupted(SubSeq(text, sp[k][1], sp[k][2]))

\* C9: the rewritten HTML handed to the write holds no url(...) construct with the
\* corrupted token, and when the CSS pass leaves a stylesheet it took to the repair
\* path, the stylesheet on disk holds none either.
C9_NoCorruptedToken ==
  [][/\ mpc' = "writeHtml" => ~HasCorruptedUrl(transformedHtml')
     /\ (mpc \in {"cssPostcss", "cssWrite"} /\ mpc' \notin {"cssPostcss", "cssWrite"})
          => ~HasCorruptedUrl(disk'[cssFiles[cssIdx]])]_vars

\* the token rule as claimed: the reference is read without its quotes
ClaimedToken(match, sf, cssDir, quoted) ==
  LET c == StripQuotes(SubSeq(match, 2, Len(match) - 1))
      q == IF quoted /\ Len(match) > 2 /\ match[2] \in {"\"", "'"} THEN <<match[2]>> ELSE <<>>
  IN  IF IsDataUrl(c) \/ IsHttpUrl(c) THEN match
      ELSE IF IsRelativeRef(c) /\ HasKey(sf, ResolveUrl(c, PageUrl))
           THEN <<"url(">> \o q \o PathRelative(cssDir, Lookup(sf, ResolveUrl(c, PageUrl)))
                  \o q \o <<")">>
           ELSE match

ClaimedPass(text, sf, cssDir, quoted) ==
  LET spans == UrlSpansFrom(text, 1, 1)
      repls == [k \in 1..Len(spans) |->
                  ClaimedToken(SubSeq(text, spans[k][1], spans[k][2]), sf, cssDir, quoted)]
  IN  Rebuild(text, spans, repls, 1)

\* C10: the text the CSS pass is about to write for a stylesheet is the stylesheet with
\* every url(...) token treated by the token rule: data: and absolute http(s) tokens
\* unchanged, a relative token (quoted or not) whose resolution against the page URL is
\* a key of the mapping rewritten relative to the stylesheet's directory, others unchanged.
C10_TokenRule ==
  [][(mpc = "cssRead" /\ mpc' = "cssWrite") =>
       LET cssPath == cssFiles[cssIdx]
       IN  cssOut' \in {ClaimedPass(disk[cssPath], savedFiles, PathDirname(cssPath), q) :
                           q \in BOOLEAN}]_vars

\* the text holds the unquoted token url(u)
HasUrlToken(text, u) == Includes(text, <<"url(">> \o u \o <<")">>)

\* C11: the text the CSS pass is about to write for a captured stylesheet holds no
\* url(...) token whose content is an absolute http(s) URL that is a key of the mapping:
\* every such token has been rewritten to a path relative to the stylesheet's directory.
C11_AbsoluteUrlRewritten ==
  [][(mpc \in {"cssRead", "cssPostcss"} /\ mpc' = "cssWrite") =>
       \A i \in 1..Len(savedFiles) :
         IsHttpUrl(savedFiles[i].url) => ~HasUrlToken(cssOut', savedFiles[i].url)]_vars


(***************************************************************************)
(* Properties of the terminal messages.                                    *)
(***************************************************************************)
IsTerminal(m) == m.type \in {"done", "error"}

CountTerminal == Cardinality({i \in 1..Len(sent) : IsTerminal(sent[i])})

HasDone == \E i \in 1..Len(sent) : sent[i].type = "done"

\* C12: the step in which page.goto rejects sends one 'error' message; a session whose
\* navigation failed has sent no 'done'; and a session sends at most one terminal
\* message, 'done' or 'error'.
C12_OneTerminalMessage ==
  /\ [](CountTerminal <= 1)
  /\ []((\E i \in 1..Len(sent) : sent[i].type = "error" /\ sent[i].kind = "goto") => ~HasDone)
  /\ [][(mpc = "goto" /\ mpc' \notin {"goto", "settle"}) =>
          /\ mpc' = "error"
          /\ sent' = Append(sent, PlainMsg("error", "goto", NoSeq))]_vars

\* the navigation failed after a response had been saved, and the error is the only
\* terminal message
C12_Witness ==
  /\ mpc = "error"
  /\ Len(sent) = 2
  /\ IsStatus(sent[1], "downloaded")
  /\ sent[2].type = "error" /\ sent[2].kind = "goto"

\* the awaits of the message handler whose rejection reaches its catch
MainAwaits == {"launch", "goto", "content", "writeHtml", "logEntry", "apiJson", "wsJson", "close"}

C14_ResourceFailuresIsolated ==
  /\ [][\A h \in Resp :
          Steps(h) =>
            /\ UNCHANGED mainVars
            /\ \A g \in Resp \ {h} : handlers'[g] = handlers[g]
            /\ Len(sent') > Len(sent) => Last(sent').type # "error"]_vars
  /\ (mpc = "settle") ~> (mpc = "done" /\ HasDone)

\* 'done' was sent although the write of one response had failed, while the other
\* response was saved
C14_Witness ==
  /\ DoneJustSent
  /\ Quiescent
  /\ processedFiles = 2
  /\ downloadedFiles = 2
  /\ Len(written) = 1


(***************************************************************************)
(* URLClassifier, src/utils/url-classifier.js.  Scores are counted in      *)
(* tenths: 0.8 is 8.                                                       *)
(***************************************************************************)
ApiPatternWeight == 8
MutatingMethodWeight == 6
QueryWeight == 3
JsonWeight == 7
RestIdWeight == 5
DynamicSegmentWeight == 4
StaticExtensionWeight == 9
StaticDirWeight == 7
CdnWeight == 8
VersionedWeight == 6
MinifiedWeight == 5

\* the segment names of API_PATTERNS (lines 31-39), each listed as '/name/'
ApiPatternNames ==
  {"api", "v1", "v2", "v3", "v4", "v5", "rest", "graphql", "rpc", "service",
   "endpoint", "controller", "handler", "auth", "login", "logout", "register",
   "user", "users", "admin", "dashboard", "data", "query", "search", "filter",
   "upload", "download", "export", "import"}

\* STATIC_FILE_EXTENSIONS (lines 19-26)
StaticFileExtensions ==
  {".html", ".htm", ".css", ".js", ".json", ".xml",
   ".png", ".jpg", ".jpeg", ".gif", ".svg", ".webp", ".ico", ".bmp",
   ".woff", ".woff2", ".ttf", ".eot", ".otf",
   ".pdf", ".txt", ".csv", ".zip", ".rar", ".tar", ".gz",
   ".mp3", ".mp4", ".avi", ".mov", ".wav", ".ogg",
   ".doc", ".docx", ".xls", ".xlsx", ".ppt", ".pptx"}

\* the URLs new URL() accepts start with a scheme and an authority
UrlOrigins == Origins \cup {"https://cdn.x.com", "https://u.github.io"}

\* new URL(url).hostname
Hostname(origin) ==
  CASE origin \in {"https://x.com", "http://x.com"} -> "x.com"
    [] origin = "https://y.com" -> "y.com"
    [] origin = "https://cdn.x.com" -> "cdn.x.com"
    [] origin = "https://u.github.io" -> "u.github.io"
    [] OTHER -> ""

\* String.prototype.toLowerCase of one token
ToLower(t) == IF t = "API" THEN "api" ELSE t

\* does new URL(text) return
WellFormed(text) == Len(text) > 0 /\ text[1] \in UrlOrigins

IsSearchToken(t) == IsQueryToken(t) \/ t = "?x=1"

\* new URL(text).pathname.toLowerCase()
UrlPathname(text) ==
  LET rest == Tail(text)
      path == IF Len(rest) > 0 /\ IsSearchToken(Last(rest)) THEN Front(rest) ELSE rest
  IN  IF path = <<>> THEN <<"/">> ELSE [i \in 1..Len(path) |-> ToLower(path[i])]

\* new URL(text).searchParams.toString() is not empty
HasSearch(text) == Len(text) > 1 /\ IsSearchToken(Last(text))

\* a token made of a '.' and letters or digits
IsExtToken(t) == t \in StaticFileExtensions \cup {".min", ".bundle", ".mjs", ".php"}

IsDigits(t) == t \in {"42", "7"}

\* eight or more characters of a-f, 0-9 and '-'
IsHexId(t) == t \in {"deadbeef", "0a1b2c3d-4e5f"}

IsDynamicToken(t) == t \in {"{id}", "[id]", "*"}

\* the pathname holds '/name/' for one of the names
HasSegment(pathname, names) ==
  \E i \in 2..Len(pathname) :
    pathname[i] \in names /\ MatchesAt(pathname, i - 1, <<"/", pathname[i], "/">>)

\* lines 153-201
calculateApiScore(pathname, hasSearch, method) ==
  ApiPatternWeight * Cardinality({n \in ApiPatternNames : Includes(pathname, <<"/", n, "/">>)})
  + (IF method \in {"POST", "PUT", "PATCH", "DELETE"} THEN MutatingMethodWeight ELSE 0)
  + (IF hasSearch THEN QueryWeight ELSE 0)
  + (IF \E i \in 1..Len(pathname) : pathname[i] \in {".json", "format=json"}
     THEN JsonWeight ELSE 0)
  + (IF Len(pathname) >= 2 /\ pathname[Len(pathname) - 1] = "/"
        /\ (IsDigits(Last(pathname)) \/ IsHexId(Last(pathname)))
     THEN RestIdWeight ELSE 0)
  + (IF \E i \in 1..Len(pathname) : IsDynamicToken(pathname[i])
     THEN DynamicSegmentWeight ELSE 0)

\* lines 265-268: the '.' and alphanumerics that end the pathname, or none
getFileExtension(pathname) ==
  IF IsExtToken(Last(pathname)) THEN Last(pathname) ELSE ""

\* lines 275-287
getFileTypeFromExtension(ext) ==
  CASE ext \in {".html", ".htm"} -> "html"
    [] ext = ".css" -> "css"
    [] ext \in {".js", ".mjs"} -> "javascript"
    [] ext = ".json" -> "json"
    [] ext \in {".png", ".jpg", ".jpeg", ".gif", ".svg", ".webp"} -> "image"
    [] ext \in {".woff", ".woff2", ".ttf", ".eot"} -> "font"
    [] ext = ".pdf" -> "document"
    [] ext = ".txt" -> "text"
    [] ext = ".csv" -> "data"
    [] OTHER -> "unknown"

\* lines 294-307: the hostname holds one of the CDN fragments ('cdn.', 'googleapis.', ...)
isCdnUrl(text) == WellFormed(text) /\ Hostname(text[1]) \in {"cdn.x.com"}

\* calculateStaticScore without the versioned-path signal of line 242
calculateStaticScoreUnversioned(pathname, text) ==
  (IF getFileExtension(pathname) \in StaticFileExtensions THEN StaticExtensionWeight ELSE 0)
  + (IF HasSegment(pathname, {"assets", "static", "public", "resources"})
     THEN StaticDirWeight ELSE 0)
  + (IF isCdnUrl(text) THEN CdnWeight ELSE 0)
  + (IF \E i \in 1..(Len(pathname) - 1) :
          pathname[i] \in {".min", ".bundle"} /\ IsExtToken(pathname[i + 1])
     THEN MinifiedWeight ELSE 0)

\* lines 210-258
calculateStaticScore(pathname, text) ==
  (IF getFileExtension(pathname) \in StaticFileExtensions THEN StaticExtensionWeight ELSE 0)
  + (IF HasSegment(pathname, {"assets", "static", "public", "resources"})
     THEN StaticDirWeight ELSE 0)
  + (IF isCdnUrl(text) THEN CdnWeight ELSE 0)
  + (IF HasSegment(pathname, {"v1", "v2", "v3", "v4", "v5", "v6", "v10", "version", "1.2.3"})
     THEN VersionedWeight ELSE 0)
  + (IF \E i \in 1..(Len(pathname) - 1) :
          pathname[i] \in {".min", ".bundle"} /\ IsExtToken(pathname[i + 1])
     THEN MinifiedWeight ELSE 0)

\* the file type calculateStaticScore reports
StaticFileType(pathname) ==
  IF getFileExtension(pathname) \in StaticFileExtensions
  THEN getFileTypeFromExtension(getFileExtension(pathname)) ELSE "unknown"

\* lines 96-143
performClassification(url, pathname, hasSearch, method) ==
  LET api == calculateApiScore(pathname, hasSearch, method)
      static == calculateStaticScore(pathname, url.text)
  IN  IF api > static
      THEN [type |-> "api_request", confidence |-> api, reason |-> "API indicators",
            url |-> url, method |-> method, fileType |-> ""]
      ELSE IF static > 0
      THEN [type |-> "static_file", confidence |-> static, reason |-> "Static file indicators",
            url |-> url, method |-> method, fileType |-> StaticFileType(pathname)]
      ELSE [type |-> "unknown", confidence |-> 0, reason |-> "No clear classification pattern",
            url |-> url, method |-> method, fileType |-> ""]

\* the values given as url: strings, well-formed or not, and values that are no string,
\* each with the text its conversion to a string gives
UsersUrl == <<"https://x.com", "/", "api", "/", "v2", "/", "users", "/", "42">>

AppJsUrl == <<"https://x.com", "/", "assets", "/", "app", ".min", ".js">>

ClassifierUrls ==
  { [kind |-> "string", text |-> UsersUrl],
    [kind |-> "string", text |-> AppJsUrl],
    [kind |-> "string", text |-> <<"https://cdn.x.com", "/", "API", "/", "foo">>],
    [kind |-> "string", text |-> <<"https://x.com", "/", "v6", "/", "a">>],
    [kind |-> "string", text |-> <<"https://x.com", "/", "data", ".json", "?x=1">>],
    [kind |-> "string", text |-> <<"https://x.com">>],
    [kind |-> "string", text |-> <<"not a url">>],
    [kind |-> "string", text |-> <<>>],
    [kind |-> "null", text |-> <<"null">>],
    [kind |-> "number", text |-> <<"42">>],
    [kind |-> "object", text |-> <<"[object Object]">>] }

Methods == {"GET", "POST"}

MaxCached == 2

\* `${method}-${url}` (line 59)
CacheKey(url, method) == <<method, "-">> \o url.text

\* the result of the catch (lines 77-83)
InvalidResult(url, method) ==
  [type |-> "unknown", confidence |-> 0, reason |-> "Invalid URL format",
   url |-> url, method |-> method, fileType |-> ""]

\* Map.prototype.set
CacheSet(cache, key, value) ==
  [k \in DOMAIN cache \cup {key} |-> IF k = key THEN value ELSE cache[k]]

\* classifyUrl without its try/catch: new URL() of a malformed value throws to the caller
classifyUrlUncaught(url, method) ==
  LET key == CacheKey(url, method)
  IN  IF key \in DOMAIN classificationCache
      THEN /\ returned' = [how |-> "returned", op |-> "classifyUrl",
                           value |-> classificationCache[key], computed |-> FALSE]
           /\ UNCHANGED classificationCache
      ELSE IF WellFormed(url.text)
      THEN /\ Cardinality(DOMAIN classificationCache) < MaxCached
           /\ LET classification ==
                    performClassification(url, UrlPathname(url.text), HasSearch(url.text), method)
              IN  /\ classificationCache' = CacheSet(classificationCache, key, classification)
                  /\ returned' = [how |-> "returned", op |-> "classifyUrl",
                                  value |-> classification, computed |-> TRUE]
      ELSE /\ returned' = [how |-> "threw", op |-> "classifyUrl",
                           value |-> InvalidResult(url, method), computed |-> FALSE]
           /\ UNCHANGED classificationCache

\* lines 56-85
classifyUrl(url, method) ==
  LET key == CacheKey(url, method)
  IN  IF key \in DOMAIN classificationCache
      THEN /\ returned' = [how |-> "returned", op |-> "classifyUrl",
                           value |-> classificationCache[key], computed |-> FALSE]
           /\ UNCHANGED classificationCache
      ELSE IF WellFormed(url.text)
      THEN /\ Cardinality(DOMAIN classificationCache) < MaxCached
           /\ LET classification ==
                    performClassification(url, UrlPathname(url.text), HasSearch(url.text), method)
              IN  /\ classificationCache' = CacheSet(classificationCache, key, classification)
                  /\ returned' = [how |-> "returned", op |-> "classifyUrl",
                                  value |-> classification, computed |-> TRUE]
      ELSE /\ returned' = [how |-> "returned", op |-> "classifyUrl",
                           value |-> InvalidResult(url, method), computed |-> FALSE]
           /\ UNCHANGED classificationCache

ClassifyUrl ==
  /\ \E url \in ClassifierUrls, method \in Methods : classifyUrl(url, method)
  /\ UNCHANGED <<cloneVars, analysis, appVars>>

\* lines 312-316: the cache is cleared, then this.processedUrls, which no constructor
\* or method of the class assigns, is dereferenced: TypeError
ClearCache ==
  /\ classificationCache' = NoCache
  /\ returned' = [how |-> "threw", op |-> "clearCache", value |-> NoResult, computed |-> FALSE]
  /\ UNCHANGED <<cloneVars, analysis, appVars>>

\* lines 322-327: this.processedUrls.size is evaluated for the result: TypeError
GetCacheStats ==
  /\ returned' = [how |-> "threw", op |-> "getCacheStats", value |-> NoResult,
                  computed |-> FALSE]
  /\ UNCHANGED <<cloneVars, analysis, classificationCache, appVars>>

\* no clone message has been received
WorkerIdle ==
  /\ mpc = "off"
  /\ browserOpen = FALSE
  /\ handlers = [h \in Resp |-> Idle]
  /\ disk = [p \in {} |-> OldPng]
  /\ savedFiles = <<>>
  /\ apiLogs = <<>>
  /\ processedFiles = 0
  /\ downloadedFiles = 0
  /\ skippedFiles = 0
  /\ sent = <<>>
  /\ written = <<>>
  /\ siteCss = CssRel
  /\ transformedHtml = NoSeq
  /\ cssFiles = <<>>
  /\ cssIdx = 0
  /\ cssText = NoSeq
  /\ cssOut = NoSeq
  /\ logIdx = 0
  /\ jsonOut = <<>>
  /\ logFiles = [n \in {} |-> <<>>]

ClassifierInit ==
  /\ WorkerIdle
  /\ AppIdle
  /\ classificationCache = NoCache
  /\ returned = NoCall
  /\ analysis = NoAnalysis

ClassifierNext == ClassifyUrl \/ ClearCache \/ GetCacheStats

ClassifierSpec == ClassifierInit /\ [][ClassifierNext]_vars


(***************************************************************************)
(* Properties of the classifier.                                           *)
(***************************************************************************)
\* the last call was classifyUrl and it returned a result
Classified == returned.op = "classifyUrl" /\ returned.how = "returned"

\* the scores of the call whose result is v
ApiScoreOf(v) == calculateApiScore(UrlPathname(v.url.text), HasSearch(v.url.text), v.method)

StaticScoreOf(v) == calculateStaticScore(UrlPathname(v.url.text), v.url.text)

\* C15: the result for a well-formed URL is api_request exactly when the API score is
\* higher than the static score, static_file exactly when the static score is higher,
\* and unknown with confidence 0 when the scores are equal.
C15_DecisionRule ==
  (Classified /\ WellFormed(returned.value.url.text)) =>
    LET v == returned.value
    IN  /\ v.type = "api_request" <=> ApiScoreOf(v) > StaticScoreOf(v)
        /\ v.type = "static_file" <=> StaticScoreOf(v) > ApiScoreOf(v)
        /\ ApiScoreOf(v) = StaticScoreOf(v) => (v.type = "unknown" /\ v.confidence = 0)

C17_CacheSemantics ==
  [][/\ returned'.op = "clearCache" =>
          (returned'.how = "returned" /\ classificationCache' = NoCache)
     /\ returned'.op = "getCacheStats" => returned'.how = "returned"
     /\ (returned'.op = "classifyUrl" /\ WellFormed(returned'.value.url.text)) =>
          LET key == CacheKey(returned'.value.url, returned'.value.method)
          IN  /\ classificationCache'[key] = returned'.value
              /\ key \in DOMAIN classificationCache =>
                   /\ returned'.value = classificationCache[key]
                   /\ classificationCache' = classificationCache]_vars

\* the result returned for POST https://x.com/api/v2/users/42
IsScenario3 ==
  /\ Classified
  /\ returned.value.url.text = UsersUrl
  /\ returned.value.method = "POST"

\* C18 as stated: POST https://x.com/api/v2/users/42 has an API score of at least 2.7,
\* a static score of 0 and type api_request.
C18_Scenario3StaticZero ==
  IsScenario3 =>
    /\ ApiScoreOf(returned.value) >= 27
    /\ StaticScoreOf(returned.value) = 0
    /\ returned.value.type = "api_request"

\* C18, amended: POST https://x.com/api/v2/users/42 has an API score of at least 2.7
\* (3.5: the patterns /api/, /v2/ and /users/, the method, the trailing id), a static
\* score of 0.6 (the path holds /v2/, a versioned-path signal) and type api_request
\* with the API score as confidence.
C18_Scenario3 ==
  IsScenario3 =>
    /\ ApiScoreOf(returned.value) >= 27
    /\ ApiScoreOf(returned.value) = 3 * ApiPatternWeight + MutatingMethodWeight + RestIdWeight
    /\ StaticScoreOf(returned.value) = VersionedWeight
    /\ returned.value.type = "api_request"
    /\ returned.value.confidence = ApiScoreOf(returned.value)

\* the scenario has been classified, by computation
C18_Witness == IsScenario3 /\ returned.computed


(***************************************************************************)
(* StaticAnalyzer, src/utils/static-analyzer.js.  The HTML is a sequence   *)
(* of constructs, each the text one or more of the scan regexes match,     *)
(* with the reference it holds.                                            *)
(***************************************************************************)
\* the scans of analyzeHtml, in the order they run
ScanRules == <<"css", "js", "img", "bgImg", "complexBg", "url", "favicon">>

\* the constructs the regex of a scan matches (lines 29, 43, 56, 69, 82, 95, 120): a
\* background-image or a background declaration is matched by the generic url() scan too
RuleTags(rule) ==
  CASE rule = "css" -> {"stylesheet"}
    [] rule = "js" -> {"script"}
    [] rule = "img" -> {"img"}
    [] rule = "bgImg" -> {"bgimage"}
    [] rule = "complexBg" -> {"background"}
    [] rule = "url" -> {"bgimage", "background", "fontsrc"}
    [] rule = "favicon" -> {"icon"}

\* path.extname(new URL(url).pathname).toLowerCase()
ExtName(url) ==
  LET p == UrlPathname(url)
  IN  IF IsExtToken(Last(p)) THEN Last(p) ELSE ""

\* the type a scan gives an accepted reference (lines 36, 49, 62, 75, 88, 102-113, 126)
RuleType(rule, url) ==
  CASE rule \in {"css", "js", "favicon"} -> rule
    [] rule \in {"img", "bgImg", "complexBg"} -> "image"
    [] rule = "url" ->
         (CASE ExtName(url) \in {".png", ".jpg", ".jpeg", ".gif", ".svg", ".webp"} -> "image"
            [] ExtName(url) = ".css" -> "css"
            [] ExtName(url) = ".js" -> "js"
            [] ExtName(url) \in {".woff", ".woff2", ".ttf", ".eot"} -> "font"
            [] OTHER -> "resource")

\* the type a scan gives a skipped reference
SkipType(rule) ==
  CASE rule \in {"css", "js", "favicon"} -> rule
    [] rule \in {"img", "bgImg", "complexBg"} -> "image"
    [] rule = "url" -> "resource"

\* lines 145-151: new URL(url, this.baseUrl).toString()
resolveUrl(ref, baseUrl) ==
  IF WellFormed(ref) \/ IsDataUrl(ref) THEN ref ELSE ResolveUrl(ref, baseUrl)

\* new URL(url).hostname.toLowerCase(); a data: URL has none
HostOf(url) == IF WellFormed(url) THEN Hostname(url[1]) ELSE ""

\* lines 164-176: the hostname holds a fragment of cdnDomains ('cdn.', 'github.io', ...)
IsDenylisted(host) == host \in {"cdn.x.com", "u.github.io"}

\* validExtensions (line 186)
validExtensions ==
  {".css", ".js", ".png", ".jpg", ".jpeg", ".gif", ".svg", ".ico", ".woff", ".woff2",
   ".ttf", ".eot"}

\* isValidStaticFile without the comparison with the base hostname
isValidStaticFileAnyHost(url, baseUrl) ==
  /\ WellFormed(url)
  /\ ~IsDenylisted(HostOf(url))
  /\ WellFormed(baseUrl)
  /\ ExtName(url) \in validExtensions

\* lines 158-192
isValidStaticFile(url, baseUrl) ==
  /\ WellFormed(url)
  /\ ~IsDenylisted(HostOf(url))
  /\ WellFormed(baseUrl)
  /\ HostOf(url) = HostOf(baseUrl)
  /\ ExtName(url) \in validExtensions

\* the body of each while loop of analyzeHtml for one match
ScanEntry(rule, ref, baseUrl) ==
  LET url == resolveUrl(ref, baseUrl)
  IN  IF IsDataUrl(url)
      THEN [list |-> "skipped", url |-> url, type |-> SkipType(rule),
            reason |-> "base64 data URL"]
      ELSE IF isValidStaticFile(url, baseUrl)
      THEN [list |-> "static", url |-> url, type |-> RuleType(rule, url), reason |-> ""]
      ELSE [list |-> "skipped", url |-> url, type |-> SkipType(rule),
            reason |-> "external/cdn"]

\* one while loop: the matches of the scan, in text order
RECURSIVE ScanFrom(_, _, _, _)
ScanFrom(rule, html, baseUrl, i) ==
  IF i > Len(html) THEN <<>>
  ELSE (IF html[i].tag \in RuleTags(rule)
        THEN <<ScanEntry(rule, html[i].ref, baseUrl)>> ELSE <<>>)
       \o ScanFrom(rule, html, baseUrl, i + 1)

\* the scans one after the other
RECURSIVE ScanAll(_, _, _)
ScanAll(html, baseUrl, r) ==
  IF r > Len(ScanRules) THEN <<>>
  ELSE ScanFrom(ScanRules[r], html, baseUrl, 1) \o ScanAll(html, baseUrl, r + 1)

\* lines 23-138
analyzeHtml(html, baseUrl) ==
  LET all == ScanAll(html, baseUrl, 1)
  IN  [called |-> TRUE, html |-> html, baseUrl |-> baseUrl,
       staticFiles |-> SelectSeq(all, LAMBDA e : e.list = "static"),
       skippedFiles |-> SelectSeq(all, LAMBDA e : e.list = "skipped")]

\* the references a page can hold
WebpRef == <<"/", "img", "/", "p", ".webp">>

AppRef == <<"/", "app">>

ExternalPng == <<"https://y.com", "/", "p", ".png">>

CdnJs == <<"https://cdn.x.com", "/", "lib", ".js">>

Refs == {<<"/", "css", "/", "a", ".css">>, WebpRef, AppRef, ExternalPng, CdnJs, DataUrl, ImgUrl}

Tags == {"stylesheet", "script", "img", "bgimage", "background", "fontsrc", "icon"}

Constructs == [tag : Tags, ref : Refs]

MaxRefs == 2

Pages == UNION {[1..n -> Constructs] : n \in 1..MaxRefs}

\* the page's own URL: a site of its own, or one hosted on a denylisted domain
BaseUrls == {PageUrl, <<"https://u.github.io", "/">>}

\* analyzeHtml is called with the page and its URL
AnalyzeHtml ==
  /\ ~analysis.called
  /\ analysis' = analyzeHtml(analysis.html, analysis.baseUrl)
  /\ UNCHANGED <<cloneVars, classificationCache, returned, appVars>>

\* a new StaticAnalyzer, and the page and base URL it is about to be given
AnalyzerInit ==
  /\ WorkerIdle
  /\ AppIdle
  /\ classificationCache = NoCache
  /\ returned = NoCall
  /\ \E html \in Pages, baseUrl \in BaseUrls :
       analysis = [NoAnalysis EXCEPT !.html = html, !.baseUrl = baseUrl]

AnalyzerNext == AnalyzeHtml

AnalyzerSpec == AnalyzerInit /\ [][AnalyzerNext]_vars

(***************************************************************************)
(* Properties of the analyzer.                                             *)
(***************************************************************************)
\* the scans that find the construct
FoundBy(c) == {ScanRules[r] : r \in {q \in 1..Len(ScanRules) : c.tag \in RuleTags(ScanRules[q])}}

InStatic(url) == \E i \in 1..Len(analysis.staticFiles) : analysis.staticFiles[i].url = url

InSkipped(url, type, reason) ==
  \E i \in 1..Len(analysis.skippedFiles) :
    /\ analysis.skippedFiles[i].url = url
    /\ analysis.skippedFiles[i].type = type
    /\ analysis.skippedFiles[i].reason = reason

\* C19: a reference of the analyzed page whose resolved hostname differs from the base
\* URL's hostname is in staticFiles under no scan and whatever its extension; each scan
\* that finds it lists it in skippedFiles, with reason 'base64 data URL' when it is a
\* data URI and 'external/cdn' otherwise.
C19_CrossOriginExcluded ==
  analysis.called =>
    \A k \in 1..Len(analysis.html) :
      LET url == resolveUrl(analysis.html[k].ref, analysis.baseUrl)
      IN  HostOf(url) # HostOf(analysis.baseUrl) =>
            /\ ~InStatic(url)
            /\ \A rule \in FoundBy(analysis.html[k]) :
                 InSkipped(url, SkipType(rule),
                           IF IsDataUrl(url) THEN "base64 data URL" ELSE "external/cdn")

\* an image of another site with an allowlisted extension, found by the img scan, was
\* skipped as external while a same-site stylesheet was accepted
C19_Witness ==
  /\ analysis.called
  /\ analysis.baseUrl = PageUrl
  /\ \E k \in 1..Len(analysis.html) :
       analysis.html[k] = [tag |-> "img", ref |-> ExternalPng]
  /\ InSkipped(ExternalPng, "image", "external/cdn")
  /\ Len(analysis.staticFiles) = 1

\* C20: a reference found by the stylesheet, script, img, background-image, background
\* or favicon scan that is no data URI, has the base URL's hostname and is not
\* denylisted is in staticFiles whatever its extension; and a reference is skipped with
\* reason 'external/cdn' only when it is cross-origin or denylisted.
C20_AllowlistOnlyCatchAll ==
  analysis.called =>
    /\ \A k \in 1..Len(analysis.html) :
         LET url == resolveUrl(analysis.html[k].ref, analysis.baseUrl)
         IN  (/\ FoundBy(analysis.html[k]) \ {"url"} # {}
              /\ ~IsDataUrl(url)
              /\ HostOf(url) = HostOf(analysis.baseUrl)
              /\ ~IsDenylisted(HostOf(url)))
             => InStatic(url)
    /\ \A i \in 1..Len(analysis.skippedFiles) :
         analysis.skippedFiles[i].reason = "external/cdn" =>
           \/ HostOf(analysis.skippedFiles[i].url) # HostOf(analysis.baseUrl)
           \/ IsDenylisted(HostOf(analysis.skippedFiles[i].url))
           \/ analysis.skippedFiles[i].type = "resource"

(***************************************************************************)
(* Properties of the log flush.                                            *)
(***************************************************************************)
ApiLogsName == <<"api_logs", ".json">>

WsLogsName == <<"ws_logs", ".json">>

\* the per-request files under logs/
PerRequestFiles == DOMAIN logFiles \ {ApiLogsName, WsLogsName}

\* C21: once api_logs.json is written, logs/ holds as many per-request files as
\* api_logs.json holds entries, and the file named after an entry's URL (encoded, '%'
\* replaced by '_', cut to 230 characters, '.json' appended) holds that entry, also when
\* two entries share a URL.
C21_OneFilePerEntry ==
  ApiLogsName \in DOMAIN logFiles =>
    LET entries == logFiles[ApiLogsName]
    IN  /\ Cardinality(PerRequestFiles) = Len(entries)
        /\ \A i \in 1..Len(entries) :
             /\ SafeFilename(entries[i].url) \in DOMAIN logFiles
             /\ logFiles[SafeFilename(entries[i].url)] = <<entries[i]>>

(***************************************************************************)
(* The save path derivation of the response handler (lines 1997-2006) as   *)
(* a function of the request URL and the resource role.                    *)
(***************************************************************************)
PathOrigins == {"https://x.com", "https://y.com"}

\* the path components of the URLs a page can request
UrlPaths ==
  { <<"/">>,
    <<"/", "a">>,
    <<"/", "a", "/">>,
    <<"/", "a", ".html">>,
    <<"/", "docs", "/", "page">>,
    <<"/", "v1.2", "/", "page">>,
    <<"/", "v1.2", "/">>,
    <<"/", "css", "/", "a", ".css">>,
    <<"/", "img", "/", "p", ".png">> }

UrlQueries == {<<>>, <<"?v=1">>}

PathUrls == {<<o>> \o p \o q : o \in PathOrigins, p \in UrlPaths, q \in UrlQueries}

\* the response handler derives the save path of the response
DerivePath ==
  /\ ~derivation.derived
  /\ derivation' = [derivation EXCEPT !.derived = TRUE,
                                      !.savePath = SavePath(derivation.url, derivation.role)]
  /\ UNCHANGED <<cloneVars, classificationCache, returned, analysis, startCloneVars,
                 toggleVars>>

\* a response with a non-empty body has arrived: its URL and role
PathInit ==
  /\ WorkerIdle
  /\ UtilIdle
  /\ StartCloneIdle
  /\ ToggleIdle
  /\ \E url \in PathUrls, role \in StaticRoles :
       derivation = [NoDerivation EXCEPT !.url = url, !.role = role]

PathNext == DerivePath

PathSpec == PathInit /\ [][PathNext]_vars

\* the last segment of a path has an extension
FinalSegmentHasExtension(p) ==
  LET seg == Last(SplitOn(p, "/")) IN \E i \in 1..Len(seg) : HasDot(seg[i])

\* C22: the derived path is assets/<URL pathname>, directory by directory, with 'index'
\* appended when the pathname ends in '/', and '.html' appended when the role is
\* 'document' and the final segment has no extension, whatever the directory segments
\* hold.
C22_PathDerivation ==
  derivation.derived =>
    LET p0 == Pathname(derivation.url)
        p1 == IF Last(p0) = "/" THEN Append(p0, "index") ELSE p0
        p2 == IF derivation.role = "document" /\ ~FinalSegmentHasExtension(p1)
              THEN Append(p1, ".html") ELSE p1
    IN  derivation.savePath = assetsDir \o p2

(***************************************************************************)
(* Properties of the completion of a session.                              *)
(***************************************************************************)
\* the place of a position of the message handler in the order of its steps
Rank(pc) ==
  CASE pc = "launch" -> 0
    [] pc = "goto" -> 1
    [] pc = "settle" -> 2
    [] pc = "content" -> 3
    [] pc = "writeHtml" -> 4
    [] pc \in {"cssRead", "cssPostcss", "cssWrite"} -> 5
    [] pc \in {"logEntry", "apiJson"} -> 6
    [] pc = "wsJson" -> 7
    [] pc = "close" -> 8
    [] pc = "done" -> 9
    [] OTHER -> 10

C24_CounterIdentity ==
  \A i \in 1..Len(sent) :
    IsSaved(sent[i]) =>
      /\ sent[i].processed = sent[i].downloaded + sent[i].skipped
      /\ sent[i].total = sent[i].processed
      /\ sent[i].percentage = 100

\* the path lies under the output asset root
UnderAssets(p) ==
  /\ Len(p) > Len(assetsDir) + 1
  /\ SubSeq(p, 1, Len(assetsDir)) = assetsDir
  /\ p[Len(assetsDir) + 1] = "/"

\* C25: at every point of a session, with or without network hints in the request,
\* every value of savedFiles is a path under the output asset root.
C25_MappingValuesLocal ==
  \A i \in 1..Len(savedFiles) : UnderAssets(savedFiles[i].path)

\* the number of apiCaptured messages sent for the URL
CapturedCount(url) ==
  Cardinality({i \in 1..Len(sent) : IsApiCaptured(sent[i]) /\ sent[i].url = url})

\* the number of entries api_logs.json holds for the URL
FlushedCount(url) ==
  Cardinality({i \in 1..Len(logFiles[ApiLogsName]) : logFiles[ApiLogsName][i].url = url})

\* C26: once 'done' is sent, every apiCaptured message sent has its entry in the
\* api_logs.json the session wrote, and 'done' is the last message: no progress message
\* follows it.
C26_NoCaptureLostOrLate ==
  HasDone =>
    /\ Last(sent).type = "done"
    /\ \A i \in 1..Len(sent) :
         IsApiCaptured(sent[i]) => CapturedCount(sent[i].url) <= FlushedCount(sent[i].url)

\* C27: a session that has ended, with 'done' or with 'error', has no browser open: the
\* browser it launched has been closed.
C27_BrowserReleased ==
  mpc \in {"done", "error"} => ~browserOpen

(***************************************************************************)
(* ipcMain.handle('start-clone'), src/main/main.js lines 175-210, with the *)
(* worker seen from outside: the messages it sends and its end.            *)
(***************************************************************************)
MaxMsgs == 3

\* the messages a worker sends (renderer.js): progress payloads, and the two terminal
\* messages
ProgressMsgs == {[type |-> "progress", payload |-> "apiCaptured"],
                 [type |-> "progress", payload |-> "savedResource"]}

TerminalMsgs == {[type |-> "done", payload |-> "result"],
                 [type |-> "error", payload |-> "stack"]}

\* resolve(value) and reject(reason): only the first call settles the promise
Settle1(p, state, value) ==
  IF p.state = "pending" THEN [state |-> state, value |-> value] ELSE p

\* worker.kill(): the signal is sent to a process that has not ended
Kill(w) == IF w.state = "running" THEN [w EXCEPT !.state = "killed"] ELSE w

\* lines 175-184: the promise is created, the worker forked and the options sent
StartClone ==
  /\ worker.state = "none"
  /\ worker' = [worker EXCEPT !.state = "running"]
  /\ UNCHANGED <<ipc, promise, forwarded>>
  /\ UNCHANGED <<cloneVars, classificationCache, returned, analysis, derivation, toggleVars>>

\* the worker sends a message: progress messages, and at most one terminal message
WorkerSend ==
  /\ worker.state = "running"
  /\ worker.sends < MaxMsgs
  /\ \E m \in ProgressMsgs \cup TerminalMsgs :
       /\ m \in TerminalMsgs => ~worker.terminal
       /\ ipc' = Append(ipc, m)
       /\ worker' = [worker EXCEPT !.sends = @ + 1,
                                   !.terminal = @ \/ m \in TerminalMsgs]
  /\ UNCHANGED <<promise, forwarded>>
  /\ UNCHANGED <<cloneVars, classificationCache, returned, analysis, derivation, toggleVars>>

\* lines 186-198, worker.on('message')
Receive ==
  /\ ipc # <<>>
  /\ LET message == Head(ipc)
     IN  /\ ipc' = Tail(ipc)
         /\ IF message.type = "progress"
            THEN /\ forwarded' = Append(forwarded, message.payload)
                 /\ UNCHANGED <<promise, worker>>
            ELSE IF message.type = "done"
            THEN /\ promise' = Settle1(promise, "resolved", message.payload)
                 /\ worker' = Kill(worker)
                 /\ UNCHANGED forwarded
            ELSE /\ promise' = Settle1(promise, "rejected", message.payload)
                 /\ worker' = Kill(worker)
                 /\ UNCHANGED forwarded
  /\ UNCHANGED <<cloneVars, classificationCache, returned, analysis, derivation, toggleVars>>

\* lines 200-203, worker.on('error'): the process could not be spawned or killed, or a
\* message could not be sent to it
WorkerError ==
  /\ worker.state \in {"running", "killed"}
  /\ ~worker.errored
  /\ worker' = [worker EXCEPT !.errored = TRUE]
  /\ promise' = Settle1(promise, "rejected", "Error")
  /\ UNCHANGED <<ipc, forwarded>>
  /\ UNCHANGED <<cloneVars, classificationCache, returned, analysis, derivation, toggleVars>>

\* lines 205-209, worker.on('exit'): the process has ended, by itself, by a crash or by
\* the signal; the handler logs the code
WorkerExit ==
  /\ worker.state \in {"running", "killed"}
  /\ worker' = [worker EXCEPT !.state = "exited"]
  /\ UNCHANGED <<ipc, promise, forwarded>>
  /\ UNCHANGED <<cloneVars, classificationCache, returned, analysis, derivation, toggleVars>>

StartCloneInit ==
  /\ WorkerIdle
  /\ UtilIdle
  /\ AppIdle

StartCloneNext == StartClone \/ WorkerSend \/ Receive \/ WorkerError \/ WorkerExit

StartCloneSpec == StartCloneInit /\ [][StartCloneNext]_vars

\* C28: an invocation whose worker has ended and whose messages have all been received
\* has settled: resolved by 'done', rejected by 'error' or a process error, also when
\* the worker ended without a terminal message; a settled promise stays as it is; and
\* every progress message received is forwarded to the window.
C28_StartCloneSettles ==
  /\ []((worker.state = "exited" /\ ipc = <<>>) => promise.state # "pending")
  /\ [][promise.state # "pending" => promise' = promise]_vars
  /\ [][(ipc # <<>> /\ ipc' = Tail(ipc) /\ Head(ipc).type = "progress")
          => forwarded' = Append(forwarded, Head(ipc).payload)]_vars

(***************************************************************************)
(* ipcMain.handle('toggle-server'), src/main/main.js lines 115-153, and    *)
(* the static server module, src/utils/static-server.js.  A call is one    *)
(* run of the handler; a server instance is what app.listen returns.       *)
(***************************************************************************)
MaxToggles == 4

\* port || config.server.defaultPort
DefaultPort == 8080

\* the response of a call that has not returned
NoResponse == [running |-> FALSE, url |-> 0, port |-> 0, error |-> FALSE]

\* the ports on which an instance is listening
BusyPorts(insts) == {insts[i].port : i \in {j \in 1..Len(insts) : insts[j].state = "listening"}}

\* findAvailablePort (static-server.js lines 13-33): the first port from startPort on
\* which the test server can listen
findAvailablePort(startPort, insts) ==
  CHOOSE p \in startPort..(startPort + Len(insts)) :
    p \notin BusyPorts(insts) /\ \A q \in startPort..(p - 1) : q \in BusyPorts(insts)

\* the handle start returns when the module already has a server (lines 46-48): a stop
\* that does nothing, no url, no port
NoopHandle == [kind |-> "noop", inst |-> 0, port |-> 0, url |-> 0]

\* serverHandle.stop(): lines 138-141, or the empty stop of line 47
Stop(handle) ==
  IF handle.kind = "real"
  THEN /\ instances' = [instances EXCEPT ![handle.inst].state =
                          IF @ = "listening" THEN "closed" ELSE @]
       /\ server' = 0
  ELSE UNCHANGED <<instances, server>>

\* staticServer.start is called by the call c (main.js line 138): with a server in the
\* module it returns at once and the handler answers; otherwise the search for a free
\* port is started
Start(c, calls) ==
  IF server # 0
  THEN /\ serverHandle' = NoopHandle
       /\ toggles' = [calls EXCEPT ![c] =
                        [pc |-> "done", actualPort |-> 0,
                         response |-> [running |-> TRUE, url |-> 0, port |-> 0,
                                       error |-> FALSE]]]
       /\ UNCHANGED <<instances, server>>
  ELSE /\ toggles' = [calls EXCEPT ![c] =
                        [pc |-> "findPort",
                         actualPort |-> findAvailablePort(DefaultPort, instances),
                         response |-> NoResponse]]
       /\ UNCHANGED <<serverHandle, instances, server>>

\* main.js lines 120-138: the handler is invoked and runs to its first await
Toggle ==
  /\ Len(toggles) < MaxToggles
  /\ LET c == Len(toggles) + 1
         calls == Append(toggles, [pc |-> "ensureDir", actualPort |-> 0,
                                   response |-> NoResponse])
     IN  IF serverHandle # NullHandle
         THEN /\ Stop(serverHandle)
              /\ serverHandle' = NullHandle
              /\ toggles' = [calls EXCEPT ![c].pc = "done"]
         ELSE \/ /\ toggles' = calls
                 /\ UNCHANGED <<serverHandle, instances, server>>
              \/ Start(c, calls)
  /\ UNCHANGED <<cloneVars, classificationCache, returned, analysis, derivation,
                 startCloneVars>>

\* main.js lines 133-138: fs.ensureDir settles; a rejection goes to the catch of line 148
EnsureAssetsDir ==
  /\ \E c \in 1..Len(toggles) :
       /\ toggles[c].pc = "ensureDir"
       /\ \/ Start(c, toggles)
          \/ /\ toggles' = [toggles EXCEPT ![c].pc = "done", ![c].response.error = TRUE]
             /\ UNCHANGED <<serverHandle, instances, server>>
  /\ UNCHANGED <<cloneVars, classificationCache, returned, analysis, derivation,
                 startCloneVars>>

\* static-server.js lines 51-144 and main.js lines 138-144: the port search settles,
\* app.listen is called on the port found (it fails with EADDRINUSE, which the 'error'
\* listener logs, when an instance listens there by now), the module's server and the
\* handle are set and the handler answers
PortFound ==
  /\ \E c \in 1..Len(toggles) :
       /\ toggles[c].pc = "findPort"
       /\ LET actualPort == toggles[c].actualPort
              inst == Len(instances) + 1
              handle == [kind |-> "real", inst |-> inst, port |-> actualPort,
                         url |-> actualPort]
          IN  /\ instances' = Append(instances,
                                [port |-> actualPort,
                                 state |-> IF actualPort \in BusyPorts(instances)
                                           THEN "failed" ELSE "listening"])
              /\ server' = inst
              /\ serverHandle' = handle
              /\ toggles' = [toggles EXCEPT ![c].pc = "done",
                               ![c].response = [running |-> TRUE, url |-> handle.url,
                                                port |-> handle.port, error |-> FALSE]]
  /\ UNCHANGED <<cloneVars, classificationCache, returned, analysis, derivation,
                 startCloneVars>>

ToggleInit ==
  /\ WorkerIdle
  /\ UtilIdle
  /\ AppIdle

ToggleNext == Toggle \/ EnsureAssetsDir \/ PortFound

ToggleSpec == ToggleInit /\ [][ToggleNext]_vars

Listening == {i \in 1..Len(instances) : instances[i].state = "listening"}

\* the call c returns in this step
Answers(c) ==
  /\ c \in 1..Len(toggles')
  /\ toggles'[c].pc = "done"
  /\ c \in 1..Len(toggles) => toggles[c].pc # "done"

\* C29: after any sequence of toggle-server calls, overlapping or not, at most one
\* server instance is listening, serverHandle is non-null exactly when an instance is
\* listening and is then the handle of that instance, and a call that answers running:
\* true answers the url and port of the listening instance.
C29_ToggleConsistent ==
  /\ [](Cardinality(Listening) <= 1)
  /\ [](serverHandle # NullHandle <=> Listening # {})
  /\ [](serverHandle # NullHandle =>
         (serverHandle.kind = "real" /\ serverHandle.inst \in Listening))
  /\ [][\A c \in 1..MaxToggles :
          (Answers(c) /\ toggles'[c].response.running) =>
            \E i \in 1..Len(instances') :
              /\ instances'[i].state = "listening"
              /\ toggles'[c].response.port = instances'[i].port
              /\ toggles'[c].response.url = instances'[i].port]_vars

\* the asset writes of this session that went to the path
WritersOf(p) == {written[k].url : k \in {j \in 1..Len(written) : written[j].path = p}}

\* C30: a file this session wrote and a mapped URL resolves to was written for that URL
\* and (stylesheets, which the CSS pass rewrites, aside) holds a payload of that URL;
\* and a URL is reported 'skipped' for a file of this session only when the file was
\* written for that URL.
C30_DistinctUrlsDistinctContent ==
  /\ \A i \in 1..Len(savedFiles) :
       LET u == savedFiles[i].url
           p == savedFiles[i].path
       IN  WritersOf(p) # {} =>
             /\ WritersOf(p) = {u}
             /\ ~IsCssPath(p) => disk[p] \in Bodies(u)
  /\ \A i \in 1..Len(sent) :
       IsStatus(sent[i], "skipped") => WritersOf(sent[i].path) \subseteq {sent[i].url}

====
